---- MODULE Spec2Model ----
(***************************************************************************)
(* Model of the jiradisco capacity planner: the calendar utility           *)
(* (dates.ts), the record normalizer and batch parser (csv.ts).            *)
(*                                                                         *)
(* Representation.                                                         *)
(*   - A JS number is an integer count of 1/Scale units, so that every     *)
(*     decimal literal with up to three decimals and its half are exact;   *)
(*     NaN is the sentinel NaN.                                            *)
(*   - A Date is its day number since 1970-01-01 (a Thursday); an Invalid  *)
(*     Date has time NaN.  All dates are taken at the same time of day.    *)
(*   - A string is a sequence of one-character strings.                    *)
(***************************************************************************)
EXTENDS Integers, Sequences, FiniteSets, TLC

VARIABLES today, row, initiative, table, result, normalized, pc,
          heap, startArg, endArg, daysArg, returned, counted, loop,
          initiativeList, capacityArg, chartData,
          dataState, fileName, error, selectedMonthData, page,
          allInitiatives, reads,
          scopeData, filterDate, projection, scopeCreep,
          filterResult, now, creepProjection,
          isLoading, scopeError, drops

\* the state of the record normalizer and of the batch parser
csvVars == <<today, row, initiative, table, result, normalized>>

\* the state of a caller of the calendar utility
dateVars == <<heap, startArg, endArg, daysArg, returned, counted, loop>>

\* the state of a caller of the monthly aggregator
summaryVars == <<initiativeList, capacityArg, chartData>>

\* the state of the planner page: its six state hooks (data is dataState)
\* and the file reads that have not completed
plannerVars == <<dataState, fileName, error, selectedMonthData, page,
                 allInitiatives, reads>>

\* the state of the scope-tracking page that its calculations read, and
\* what the calculations return
scopeVars == <<scopeData, filterDate, projection, scopeCreep>>

\* what a render of the scope-tracking page computes besides: the filtered data,
\* and the projection with scope creep from the time of the render
renderVars == <<filterResult, now, creepProjection>>

\* the loading flag and the error message of the scope-tracking page, and
\* the calls of onDrop that have not returned
dropVars == <<isLoading, scopeError, drops>>

\* the state of the two pages
pageVars == <<plannerVars, scopeVars, renderVars, dropVars>>

vars == <<csvVars, dateVars, summaryVars, pageVars, pc>>

-----------------------------------------------------------------------------
(* Bounds of the model *)

\* last calendar day (days since the epoch) of the date grids
MaxDay == 20
\* largest number of data rows of a decoded table
MaxRows == 3
\* largest number of initiatives handed to the monthly aggregator
MaxInitiatives == 3
\* largest number of file reads of the planner page under way at a time
MaxReads == 2
\* largest number of snapshots of the scope-tracking page
MaxSnapshots == 3

\* the calls of onDrop of the scope-tracking page that have not returned
MaxDrops == 2
\* largest number of uploaded files, in the collection and under way
MaxUploads == 2

-----------------------------------------------------------------------------
(* Numbers *)

Scale == 2000

NaN == -1000000000

IsNaN(x) == x = NaN

Max(a, b) == IF a >= b THEN a ELSE b

\* Math.floor of a number, as a count of whole units
Floor(x) == x \div Scale

\* Number.prototype.toFixed(2): the number of hundredths nearest to x
\* (the larger one on a tie), which the code compares as decimal strings
toFixed2(x) == (x + (Scale \div 200)) \div (Scale \div 100)

-----------------------------------------------------------------------------
(* Strings *)

UpperChars == <<"A","B","C","D","E","F","G","H","I","J","K","L","M",
                "N","O","P","Q","R","S","T","U","V","W","X","Y","Z">>

LowerChars == <<"a","b","c","d","e","f","g","h","i","j","k","l","m",
                "n","o","p","q","r","s","t","u","v","w","x","y","z">>

LowerChar(c) ==
    IF \E i \in 1..Len(UpperChars) : UpperChars[i] = c
    THEN LowerChars[CHOOSE i \in 1..Len(UpperChars) : UpperChars[i] = c]
    ELSE c

\* String.prototype.toLowerCase
toLowerCase(s) == [i \in 1..Len(s) |-> LowerChar(s[i])]

\* a truthy value that is not a string (it has no toLowerCase / match method)
ObjectValue == <<"[object]">>

IsString(v) == v # ObjectValue

Digits == <<"0","1","2","3","4","5","6","7","8","9">>

IsDigit(c) == \E i \in 1..Len(Digits) : Digits[i] = c

DigitValue(c) == (CHOOSE i \in 1..Len(Digits) : Digits[i] = c) - 1

RECURSIVE SkipSpaces(_)
SkipSpaces(s) ==
    IF s # <<>> /\ Head(s) = " " THEN SkipSpaces(Tail(s)) ELSE s

RECURSIVE ReadDigits(_, _)
ReadDigits(s, acc) ==
    IF s # <<>> /\ IsDigit(Head(s))
    THEN ReadDigits(Tail(s), acc * 10 + DigitValue(Head(s)))
    ELSE acc

\* parseInt(s, 10): leading blanks, an optional sign, the longest run of
\* digits; NaN when there is no digit.  The value is in whole units.
parseInt(s) ==
    LET t == SkipSpaces(s)
        neg == t # <<>> /\ Head(t) = "-"
        u == IF t # <<>> /\ (Head(t) = "-" \/ Head(t) = "+") THEN Tail(t) ELSE t
    IN  IF u = <<>> \/ ~IsDigit(Head(u))
        THEN NaN
        ELSE (IF neg THEN -1 ELSE 1) * ReadDigits(u, 0)

-----------------------------------------------------------------------------
(* Dates *)

\* new Date(text): a date field is <<"iso", day>> for a well-formed date
\* and anything else (empty, garbage) gives an Invalid Date
newDate(s) == IF s[1] = "iso" THEN s[2] ELSE NaN

\* Date.prototype.getDay: 0 = Sunday .. 6 = Saturday; day 0 is a Thursday
getDay(d) == (d + 4) % 7

\* date-fns differenceInDays of two dates at the same time of day
differenceInDays(dateLeft, dateRight) ==
    IF IsNaN(dateLeft) \/ IsNaN(dateRight) THEN NaN ELSE dateLeft - dateRight

RECURSIVE CountLoop(_, _, _)
CountLoop(curDate, endDate, count) ==
    IF curDate <= endDate
    THEN CountLoop(curDate + 1, endDate,
                   IF getDay(curDate) # 0 /\ getDay(curDate) # 6
                   THEN count + 1 ELSE count)
    ELSE count

\* mutant: the end date is not counted
calculateWorkingDays_ExclusiveEnd(startDate, endDate) ==
    IF IsNaN(startDate) \/ IsNaN(endDate) \/ endDate < startDate
    THEN 0
    ELSE CountLoop(startDate, endDate - 1, 0)

\* the number of Monday-Friday days of [startDate, endDate], in whole days
calculateWorkingDays(startDate, endDate) ==
    IF IsNaN(startDate) \/ IsNaN(endDate) \/ endDate < startDate
    THEN 0
    ELSE CountLoop(startDate, endDate, 0)

RECURSIVE AddLoop(_, _, _)
AddLoop(curDate, count, target) ==
    IF count < target
    THEN LET next == curDate + 1
         IN  AddLoop(next,
                     IF getDay(next) # 0 /\ getDay(next) # 6
                     THEN count + 1 ELSE count,
                     target)
    ELSE curDate

\* mutant: a fractional number of days is rounded up
addWorkingDays_RoundUp(startDate, days) ==
    IF IsNaN(days) \/ days <= 0
    THEN startDate
    ELSE AddLoop(startDate, 0, Floor(days + Scale - 1))

\* days is a number (units of 1/Scale); the result is a new date
addWorkingDays(startDate, days) ==
    IF IsNaN(days) \/ days <= 0
    THEN startDate
    ELSE AddLoop(startDate, 0, Floor(days))

-----------------------------------------------------------------------------
(* The delivery-status text *)

(* The text is a sequence of lexemes <<kind, value>>: the three labels, a   *)
(* decimal literal <<"num", thousandths>>, " of ", " story points" and the  *)
(* separators.  The regular expressions of the normalizer are sequences of  *)
(* these lexemes.                                                           *)
Lex(kind) == <<kind, 0>>

Num(thousandths) == <<"num", thousandths>>

\* parseFloat of a decimal literal
parseFloat(lexeme) == lexeme[2] * (Scale \div 1000)

\* String.prototype.match(/<before>(\d+(\.\d+)?|\d+)<after>/): the captured
\* literal of the leftmost match, <<>> when nothing matches
match(text, before, after) ==
    LET hits == {i \in 1..(Len(text) - 2) :
                    /\ text[i] = Lex(before)
                    /\ text[i + 1][1] = "num"
                    /\ text[i + 2] = Lex(after)}
    IN  IF hits = {} THEN <<>>
        ELSE <<text[(CHOOSE i \in hits : \A j \in hits : i <= j) + 1]>>

todoMatch(text) == match(text, "To Do: ", " of ")

inProgressMatch(text) == match(text, "In Progress: ", " of ")

doneMatch(text) == match(text, "Done: ", " of ")

\* /of (..) story points/ : the " of " lexeme ends with "of "
totalMatch(text) == match(text, " of ", " story points")

\* if (m) x = parseFloat(m[1]), over the initial value 0
matched(m) == IF m = <<>> THEN 0 ELSE parseFloat(m[1])

\* "To Do: a of t story points | In Progress: b of t story points | Done: c of t story points"
PipeText(a, b, c, t) ==
    << Lex("To Do: "), Num(a), Lex(" of "), Num(t), Lex(" story points"), Lex(" | "),
       Lex("In Progress: "), Num(b), Lex(" of "), Num(t), Lex(" story points"), Lex(" | "),
       Lex("Done: "), Num(c), Lex(" of "), Num(t), Lex(" story points") >>

\* "To Do: a, In Progress: b, Done: c of t story points"
CommaText(a, b, c, t) ==
    << Lex("To Do: "), Num(a), Lex(", "),
       Lex("In Progress: "), Num(b), Lex(", "),
       Lex("Done: "), Num(c), Lex(" of "), Num(t), Lex(" story points") >>

-----------------------------------------------------------------------------
(* String literals of the program and of its inputs *)

NotEstimated == <<"n","o","t"," ","e","s","t","i","m","a","t","e","d">>

HighLevelEstimate == <<"h","i","g","h"," ","l","e","v","e","l"," ","e","s","t","i","m","a","t","e">>

AwaitingRequirements == <<"a","w","a","i","t","i","n","g"," ","r","e","q","u","i","r","e","m","e","n","t","s">>

-----------------------------------------------------------------------------
(* Record Normalizer: parseCsvRowToInitiative *)

\* a rational n/d with d > 0, for the two percentages
Rat(n, d) == [n |-> n, d |-> d]

\* mutant: the percentage is not clamped
clampPercent_Unclamped(n, d) == Rat(n, d)

\* Math.max(0, Math.min(100, n/d))
clampPercent(n, d) ==
    IF n > 100 * d THEN Rat(100, 1)
    ELSE IF n < 0 THEN Rat(0, 1)
    ELSE Rat(n, d)

\* row["estimation status"] ? row["estimation status"].toLowerCase() : ""
lowerOrEmpty(v) == IF v = <<>> THEN <<>> ELSE toLowerCase(v)

\* parseInt(row["estimate"], 10) || 0, as a number
estimateOf(text) ==
    LET v == parseInt(text)
    IN  IF IsNaN(v) THEN 0 ELSE v * Scale

isStillBeingEstimated(estimationStatus) ==
    estimationStatus = NotEstimated \/ estimationStatus = HighLevelEstimate

\* mutant: the large-item fallback is tried before the estimation status
workDaysOf_TodoFirst(estimationStatus, estimate, todo, inProgress, startDate, targetDate) ==
    IF todo > 200 * Scale
    THEN calculateWorkingDays(startDate, targetDate) * Scale
    ELSE IF isStillBeingEstimated(estimationStatus)
    THEN estimate
    ELSE todo + inProgress \div 2

workDaysOf(estimationStatus, estimate, todo, inProgress, startDate, targetDate) ==
    IF isStillBeingEstimated(estimationStatus)
    THEN estimate
    ELSE IF todo > 200 * Scale
    THEN calculateWorkingDays(startDate, targetDate) * Scale
    ELSE todo + inProgress \div 2

totalWorkOf(estimationStatus, estimate, extractedTotal) ==
    IF isStillBeingEstimated(estimationStatus) THEN estimate ELSE extractedTotal

\* mutant: the share of the work left instead of the share completed
percentCompleteOf_WorkLeft(totalWork, workDays) ==
    IF totalWork > 0
    THEN clampPercent(workDays * 100, totalWork)
    ELSE IF workDays = 0
    THEN clampPercent(100, 1)
    ELSE clampPercent(0, 1)

percentCompleteOf(totalWork, workDays) ==
    IF totalWork > 0
    THEN clampPercent((totalWork - workDays) * 100, totalWork)
    ELSE IF workDays = 0
    THEN clampPercent(100, 1)
    ELSE clampPercent(0, 1)

expectedCompletionOf(todayForProcessing, startDate, targetDate, percentComplete) ==
    IF ~IsNaN(startDate) /\ ~IsNaN(targetDate)
    THEN LET projectLengthInDays == differenceInDays(targetDate, startDate)
             elapsedDays == differenceInDays(todayForProcessing, startDate)
         IN  IF projectLengthInDays > 0
             THEN clampPercent(elapsedDays * 100, projectLengthInDays)
             ELSE IF percentComplete.n = 100 * percentComplete.d
             THEN Rat(100, 1)
             ELSE IF projectLengthInDays < 0
             THEN Rat(100, 1)
             ELSE Rat(0, 1)
    ELSE Rat(0, 1)

\* targetDate.getTime() || 0
timeOrZero(date) == IF IsNaN(date) THEN 0 ELSE date

\* mutant: no floor at the target date for an unstarted item
projectedFinishDateOf_NoFloor(todayForProcessing, doneWork, workDays, targetDate) ==
    addWorkingDays(todayForProcessing, workDays)

projectedFinishDateOf(todayForProcessing, doneWork, workDays, targetDate) ==
    IF doneWork > 0
    THEN addWorkingDays(todayForProcessing, workDays)
    ELSE Max(addWorkingDays(todayForProcessing, workDays), timeOrZero(targetDate))

\* mutant: the difference is not clamped to totalWork
onTrackStatusOf_NoClamp(targetDate, projectedFinishDate, totalWork, doneWork, status) ==
    LET days == differenceInDays(targetDate, projectedFinishDate)
        difference == IF IsNaN(days) THEN NaN ELSE days * Scale
        completed == IF toFixed2(doneWork) = toFixed2(totalWork) /\ totalWork > 0
                     THEN 0 ELSE difference
    IN  IF toLowerCase(status) = AwaitingRequirements
        THEN 0 ELSE completed

\* mutant: done and total are compared exactly, not to two decimals
onTrackStatusOf_ExactEquality(targetDate, projectedFinishDate, totalWork, doneWork, status) ==
    LET days == differenceInDays(targetDate, projectedFinishDate)
        difference == IF IsNaN(days) THEN NaN ELSE days * Scale
        clamped == IF ~IsNaN(difference) /\ difference > totalWork
                   THEN totalWork ELSE difference
        completed == IF doneWork = totalWork /\ totalWork > 0
                     THEN 0 ELSE clamped
    IN  IF toLowerCase(status) = AwaitingRequirements
        THEN 0 ELSE completed

\* onTrackStatus is a number: whole days, or totalWork when clamped
onTrackStatusOf(targetDate, projectedFinishDate, totalWork, doneWork, status) ==
    LET days == differenceInDays(targetDate, projectedFinishDate)
        difference == IF IsNaN(days) THEN NaN ELSE days * Scale
        clamped == IF ~IsNaN(difference) /\ difference > totalWork
                   THEN totalWork ELSE difference
        completed == IF toFixed2(doneWork) = toFixed2(totalWork) /\ totalWork > 0
                     THEN 0 ELSE clamped
    IN  IF toLowerCase(status) = AwaitingRequirements
        THEN 0 ELSE completed

parseCsvRowToInitiative(todayArg, r) ==
    LET todayForProcessing == todayArg
        deliveryStatusText == r.delivery_status
        estimationStatus == lowerOrEmpty(r.estimation_status)
        status == lowerOrEmpty(r.status)
        estimate == estimateOf(r.estimate)
        todo == matched(todoMatch(deliveryStatusText))
        inProgress == matched(inProgressMatch(deliveryStatusText))
        doneWork == matched(doneMatch(deliveryStatusText))
        extractedTotal == matched(totalMatch(deliveryStatusText))
        startDate == newDate(r.project_start)
        targetDate == newDate(r.project_target)
        workDays == workDaysOf(estimationStatus, estimate, todo, inProgress,
                               startDate, targetDate)
        totalWork == totalWorkOf(estimationStatus, estimate, extractedTotal)
        percentComplete == percentCompleteOf(totalWork, workDays)
        expectedCompletion == expectedCompletionOf(todayForProcessing, startDate,
                                                   targetDate, percentComplete)
        projectedFinishDate == projectedFinishDateOf(todayForProcessing, doneWork,
                                                     workDays, targetDate)
        onTrackStatus == onTrackStatusOf(targetDate, projectedFinishDate,
                                         totalWork, doneWork, status)
    IN  [ name |-> r.summary,
          targetDate |-> targetDate,
          workDays |-> workDays,
          totalWork |-> totalWork,
          doneWork |-> doneWork,
          projectedFinishDate |-> projectedFinishDate,
          onTrackStatus |-> onTrackStatus,
          status |-> r.status,
          customer |-> r.pm_customer,
          percentComplete |-> percentComplete,
          expectedCompletion |-> expectedCompletion ]

\* a field that is truthy and not a string has no toLowerCase / match method:
\* the normalizer raises a TypeError on it
rowThrows(r) ==
    \/ ~IsString(r.estimation_status)
    \/ ~IsString(r.status)

-----------------------------------------------------------------------------
(* Batch Parser: parseCsvToInitiatives *)

(* The decoded table is what Papa.parse returns: the decoder's error       *)
(* messages, the header names (already trimmed and lower-cased by          *)
(* transformHeader; meta.fields may be undefined) and the data rows.       *)

requiredColumns ==
    << "summary", "project start", "project target", "delivery status",
       "estimation status", "estimate", "status", "pm customer" >>

Range(f) == {f[i] : i \in DOMAIN f}

includes(list, x) == x \in Range(list)

NoError == [ kind |-> "", messages |-> <<>>, missing |-> <<>>, found |-> <<>> ]

success(list) == [ outcome |-> "success", initiatives |-> list, error |-> NoError ]

failure(kind, messages, missing, found) ==
    [ outcome |-> "error", initiatives |-> <<>>,
      error |-> [ kind |-> kind, messages |-> messages,
                  missing |-> missing, found |-> found ] ]

\* mutant: the filter keeps the columns that are present
missingColumns_Present(parsedHeaders) ==
    SelectSeq(requiredColumns, LAMBDA col : includes(parsedHeaders, col))

missingColumns(parsedHeaders) ==
    SelectSeq(requiredColumns, LAMBDA col : ~includes(parsedHeaders, col))

\* the filter of the mapped rows
keep(i) == i.name # <<>> /\ ~IsNaN(i.targetDate) /\ ~IsNaN(i.workDays)

\* the comparator of the sort
compareTargetDate(a, b) == a.targetDate - b.targetDate

\* mutant: the comparator's operands are swapped
insert_Descending(x, sorted) ==
    LET before == {k \in 0..Len(sorted) :
                      \A j \in 1..k : compareTargetDate(x, sorted[j]) <= 0}
        at == CHOOSE k \in before : \A j \in before : j <= k
    IN  SubSeq(sorted, 1, at) \o <<x>> \o SubSeq(sorted, at + 1, Len(sorted))

\* x goes behind every element that does not compare greater (a stable sort)
insert(x, sorted) ==
    LET before == {k \in 0..Len(sorted) :
                      \A j \in 1..k : compareTargetDate(sorted[j], x) <= 0}
        at == CHOOSE k \in before : \A j \in before : j <= k
    IN  SubSeq(sorted, 1, at) \o <<x>> \o SubSeq(sorted, at + 1, Len(sorted))

RECURSIVE sortLoop(_, _)
sortLoop(list, sorted) ==
    IF list = <<>> THEN sorted
    ELSE sortLoop(Tail(list), insert(Head(list), sorted))

\* Array.prototype.sort with compareTargetDate
sort(list) == sortLoop(list, <<>>)

\* the TypeError raised on the first field that has no toLowerCase method
faultMessage(r) ==
    IF ~IsString(r.estimation_status)
    THEN "row[\"estimation status\"].toLowerCase is not a function"
    ELSE "row.status.toLowerCase is not a function"

\* the index of the first row on which the normalizer raises, 0 if none
firstFault(data) ==
    LET faulty == {i \in 1..Len(data) : rowThrows(data[i])}
    IN  IF faulty = {} THEN 0 ELSE CHOOSE i \in faulty : \A j \in faulty : i <= j

\* mutant: a row on which the normalizer raises is skipped
processRows_SkipFaulty(todayForProcessing, data) ==
    LET sound == SelectSeq(data, LAMBDA r : ~rowThrows(r))
        mapped == [i \in 1..Len(sound) |->
                      parseCsvRowToInitiative(todayForProcessing, sound[i])]
    IN  success(sort(SelectSeq(mapped, keep)))

\* the try block: map, filter, sort; the catch block turns a fault into the
\* error variant
processRows(todayForProcessing, data) ==
    IF firstFault(data) # 0
    THEN failure("Error processing CSV data",
                 <<faultMessage(data[firstFault(data)])>>, <<>>, <<>>)
    ELSE LET mapped == [i \in 1..Len(data) |->
                          parseCsvRowToInitiative(todayForProcessing, data[i])]
         IN  success(sort(SelectSeq(mapped, keep)))

parseCsvToInitiatives(todayArg, results) ==
    LET todayForProcessing == todayArg
        parsedHeaders == results.fields
    IN  IF results.errors # <<>>
        THEN failure("Error parsing CSV", results.errors, <<>>, <<>>)
        ELSE IF ~results.hasFields
        THEN failure("Failed to parse headers in CSV", <<>>, <<>>, <<>>)
        ELSE IF results.data = <<>> \/ missingColumns(parsedHeaders) # <<>>
        THEN failure("Invalid CSV format", <<>>,
                     missingColumns(parsedHeaders), parsedHeaders)
        ELSE processRows(todayForProcessing, results.data)

\* the number of rows handed to the normalizer by a call
rowsNormalized(results) ==
    IF \/ results.errors # <<>>
       \/ ~results.hasFields
       \/ results.data = <<>>
       \/ missingColumns(results.fields) # <<>>
    THEN 0
    ELSE IF firstFault(results.data) # 0
    THEN firstFault(results.data)
    ELSE Len(results.data)

-----------------------------------------------------------------------------
(* Date objects *)

(* A Date is a mutable object.  The heap is the sequence of the Date       *)
(* objects that exist, a reference is an index of it, and an object is its *)
(* calendar day with its time of day in milliseconds.  A call takes the    *)
(* heap and references and gives the heap it leaves and what it returns.   *)

\* no object: null or undefined
Null == 0

dateObject(day, ms) == [day |-> day, ms |-> ms]

InvalidDate == dateObject(NaN, NaN)

\* new Date(...): the new object is the last of the heap
alloc(h, object) == Append(h, object)

\* setDate(getDate() + k) keeps the time of day; an Invalid Date stays invalid
withDay(object, day) ==
    IF IsNaN(object.day) THEN InvalidDate ELSE dateObject(day, object.ms)

calculateWorkingDaysCall(h, startRef, endRef) ==
    IF startRef = Null \/ endRef = Null
    THEN [heap |-> h, ret |-> 0]
    ELSE LET startDate == h[startRef]
             endDate == h[endRef]
             invalid == \/ IsNaN(startDate.day) \/ IsNaN(endDate.day)
                        \/ endDate.day < startDate.day
             \* curDate is a copy of startDate, left on the day after endDate
             curDate == withDay(startDate, endDate.day + 1)
         IN  [heap |-> IF invalid THEN h ELSE alloc(h, curDate),
              ret |-> calculateWorkingDays(startDate.day, endDate.day)]

\* mutant: the loop advances the caller's date instead of a copy
addWorkingDaysCall_InPlace(h, startRef, n) ==
    [heap |-> [h EXCEPT ![startRef] = withDay(@, addWorkingDays(@.day, n))],
     ret |-> startRef]

\* both paths return a copy made by new Date(startDate)
addWorkingDaysCall(h, startRef, n) ==
    LET startDate == h[startRef]
        h1 == alloc(h, startDate)
        curDate == Len(h1)
    IN  [heap |-> [h1 EXCEPT ![curDate] =
                      withDay(@, addWorkingDays(startDate.day, n))],
         ret |-> curDate]

\* no loop of the calendar utility has been entered
NoLoop == [curDate |-> Null, count |-> 0, iterations |-> 0]

\* the loop variables after let count = 0 and the copy curDate; iterations
\* is the number of times the loop body has run
enteredLoop(curDate) == [curDate |-> curDate, count |-> 0, iterations |-> 0]

\* mutant: the loop stops before the end date
notAfter_Before(a, b) ==
    a.day < b.day \/ (a.day = b.day /\ a.ms < b.ms)

\* a <= b of two valid dates, which compares their times
notAfter(a, b) ==
    a.day < b.day \/ (a.day = b.day /\ a.ms <= b.ms)

\* endDate < startDate, which is false when a date is invalid
before(a, b) ==
    /\ ~IsNaN(a.day)
    /\ ~IsNaN(b.day)
    /\ ~notAfter(b, a)

\* curDate.setDate(curDate.getDate() + 1)
nextDate(object) == withDay(object, object.day + 1)

\* dayOfWeek !== 0 && dayOfWeek !== 6; getDay of an Invalid Date is NaN
notWeekend(object) ==
    IsNaN(object.day) \/ (getDay(object.day) # 0 /\ getDay(object.day) # 6)

\* one run of the body of the loop of calculateWorkingDays
countBody(h, l) ==
    [heap |-> [h EXCEPT ![l.curDate] = nextDate(@)],
     loop |-> [l EXCEPT !.count = IF notWeekend(h[l.curDate]) THEN @ + 1 ELSE @,
                        !.iterations = @ + 1]]

\* one run of the body of the loop of addWorkingDays
addBody(h, l) ==
    [heap |-> [h EXCEPT ![l.curDate] = nextDate(@)],
     loop |-> [l EXCEPT !.count = IF notWeekend(nextDate(h[l.curDate]))
                                  THEN @ + 1 ELSE @,
                        !.iterations = @ + 1]]

\* new Date(text) of a date field: midnight of the day
textDate(day) == IF IsNaN(day) THEN InvalidDate ELSE dateObject(day, 0)

\* the later of two dates, as new Date(Math.max(a.getTime(), b.getTime() || 0))
laterDate(a, b) ==
    IF IsNaN(b.day) THEN a
    ELSE IF a.day > b.day \/ (a.day = b.day /\ a.ms >= b.ms) THEN a ELSE b

\* the projected finish date of an initiative: the date addWorkingDays
\* returned when work is done, a new date, the later of it and the target
\* date, when none is; ret are the dates of the returned initiative
finishDateCall(h, targetDate, added, i) ==
    LET h4 == IF i.doneWork > 0
              THEN added.heap
              ELSE alloc(added.heap,
                         laterDate(added.heap[added.ret], h[targetDate]))
    IN  [heap |-> h4, ret |-> {targetDate, Len(h4)}, initiative |-> i]

\* the Date objects made for initiative i of row r: the target date, the
\* start date and the projected finish date
initiativeDatesCall(h1, todayForProcessing, r, i) ==
    LET h2 == alloc(h1, textDate(i.targetDate))
        targetDate == Len(h1) + 1
        h3 == alloc(h2, textDate(newDate(r.project_start)))
    IN  finishDateCall(h3, targetDate,
                       addWorkingDaysCall(h3, todayForProcessing, i.workDays), i)

\* the Date objects made by one call of the normalizer
parseCsvRowToInitiativeCall(h, todayRef, r) ==
    initiativeDatesCall(alloc(h, h[todayRef]), Len(h) + 1, r,
                        parseCsvRowToInitiative(h[todayRef].day, r))

RECURSIVE mapRowsCall(_, _, _, _, _)
mapRowsCall(h, todayForProcessing, data, k, refs) ==
    IF k > Len(data)
    THEN [heap |-> h, ret |-> refs]
    ELSE LET rest(call) ==
                 mapRowsCall(call.heap, todayForProcessing, data, k + 1,
                             refs \cup call.ret)
         IN  rest(parseCsvRowToInitiativeCall(h, todayForProcessing, data[k]))

\* the Date objects made by one call of the batch parser
parseCsvToInitiativesCall(h, todayRef, results) ==
    LET h1 == alloc(h, h[todayRef])
        todayForProcessing == Len(h) + 1
        rows == SubSeq(results.data, 1, rowsNormalized(results))
        outcome(mapped) ==
            [heap |-> mapped.heap, ret |-> mapped.ret,
             result |-> parseCsvToInitiatives(h[todayRef].day, results)]
    IN  outcome(mapRowsCall(h1, todayForProcessing, rows, 1, {}))

-----------------------------------------------------------------------------
(* The monthly aggregator (summary.ts) *)

\* an argument that the caller left out
Undefined == -1000000001

\* Array.prototype.sort with the comparator (a, b) => key(a) - key(b): the
\* sort is stable, so an element goes after the elements of smaller key and
\* after the earlier elements of equal key; keys[i] is the key of list[i]
stableSort(list, keys) ==
    LET n == Len(list)
        position(i) ==
            Cardinality({j \in 1..n : \/ keys[j] < keys[i]
                                      \/ (keys[j] = keys[i] /\ j < i)}) + 1
    IN  [p \in 1..n |-> list[CHOOSE i \in 1..n : position(i) = p]]

RECURSIVE Sum(_)
Sum(numbers) ==
    IF numbers = <<>> THEN 0 ELSE Head(numbers) + Sum(Tail(numbers))

\* Math.round: the nearest integer, a half going up
round(x) == Floor(x + Scale \div 2) * Scale

\* the lengths of the months of a year that is not a leap year
MonthLengths == <<31, 28, 31, 30, 31, 30, 31, 31, 30, 31, 30, 31>>

MonthNames ==
    <<"Jan", "Feb", "Mar", "Apr", "May", "Jun",
      "Jul", "Aug", "Sep", "Oct", "Nov", "Dec">>

RECURSIVE monthFrom(_, _)
monthFrom(dayOfYear, month) ==
    IF dayOfYear < MonthLengths[month]
    THEN month
    ELSE monthFrom(dayOfYear - MonthLengths[month], month + 1)

\* format(date, "yyyy-MM") as <<year, month>>, for the days of 1970 and 1971
formatYearMonth(day) == <<1970 + day \div 365, monthFrom(day % 365, 1)>>

\* format(parseISO(monthKey), "MMM yy")
formatMonthName(monthKey) == <<MonthNames[monthKey[2]], monthKey[1] % 100>>

\* the keys are strings of one shape, so their order is that of year, month
monthKeyOrder(monthKey) == monthKey[1] * 12 + monthKey[2]

\* today.setHours(0, 0, 0, 0)
setHoursToMidnight(date) ==
    IF IsNaN(date.day) THEN InvalidDate ELSE dateObject(date.day, 0)

\* the dates of the model are whole days: their millisecond part is 0
getUTCMilliseconds(date) == 0

hasValidTargetDate(i) == ~IsNaN(i.targetDate)

\* mutant: an overdue initiative stays in the month of its target date
monthKeyOf_NoRollover(todayAtMidnight, targetDate) ==
    formatYearMonth(targetDate)

\* the bucket of a target date, itself taken at midnight
monthKeyOf(todayAtMidnight, targetDate) ==
    IF targetDate < todayAtMidnight.day
    THEN formatYearMonth(todayAtMidnight.day)
    ELSE formatYearMonth(targetDate)

\* mutant: every member is rounded before it is added
workOf_RoundEach(members) ==
    Sum([k \in DOMAIN members |-> round(members[k].workDays)])

\* the work of a bucket: the sum is rounded when the chart data is built
workOf(members) ==
    round(Sum([k \in DOMAIN members |-> members[k].workDays]))

teamCapacity(teamCapacityPerMonth) ==
    IF teamCapacityPerMonth = Undefined THEN 20 * Scale ELSE teamCapacityPerMonth

\* the call leaves in the heap the date it was given, set to midnight, and
\* in initiatives the caller's list
groupInitiativesByMonth(h, todayRef, initiatives, teamCapacityPerMonth) ==
    LET h1 == [h EXCEPT ![todayRef] = setHoursToMidnight(@)]
        today1 == h1[todayRef]
        filtered == SelectSeq(initiatives, hasValidTargetDate)
        sorted == stableSort(filtered,
                     [k \in DOMAIN filtered |->
                         getUTCMilliseconds(filtered[k].targetDate)])
        keyOf(i) == monthKeyOf(today1, i.targetDate)
        keys == {keyOf(sorted[k]) : k \in DOMAIN sorted}
        keyList == CHOOSE q \in [1..Cardinality(keys) -> keys] :
                      \A a, b \in DOMAIN q :
                          a < b => monthKeyOrder(q[a]) < monthKeyOrder(q[b])
        members(monthKey) == SelectSeq(sorted, LAMBDA i : keyOf(i) = monthKey)
    IN  [heap |-> h1,
         initiatives |-> initiatives,
         ret |-> [b \in DOMAIN keyList |->
                    [name |-> formatMonthName(keyList[b]),
                     work |-> workOf(members(keyList[b])),
                     capacity |-> teamCapacity(teamCapacityPerMonth),
                     initiatives |-> members(keyList[b])]]]

-----------------------------------------------------------------------------
(* The planner page (app/page.tsx) *)

\* useState<string>() before any file was chosen
NoFileName == ""

TEAM_CAPACITY_PER_MONTH == 120 * Scale

NoValidInitiatives ==
    failure("No valid initiatives found in the CSV file. Please check the data.",
            <<>>, <<>>, <<>>).error

\* getToday(): a new date at midnight
getToday(day) == <<dateObject(day, 0)>>

\* mutant: a parse that fails leaves the list of all initiatives as it was
processData_KeepList(day, csv) ==
    LET h == getToday(day)
        outcome(parseResult) ==
            IF parseResult.outcome = "error"
            THEN [data |-> <<>>, allInitiatives |-> allInitiatives,
                  error |-> parseResult.error]
            ELSE IF Len(parseResult.initiatives) = 0
            THEN [data |-> <<>>, allInitiatives |-> allInitiatives,
                  error |-> NoValidInitiatives]
            ELSE [data |-> groupInitiativesByMonth(h, 1, parseResult.initiatives,
                                                   TEAM_CAPACITY_PER_MONTH).ret,
                  allInitiatives |-> parseResult.initiatives,
                  error |-> NoError]
    IN  outcome(parseCsvToInitiatives(h[1].day, csv))

\* what processData sets of data, allInitiatives and error, on the day given
processData(day, csv) ==
    LET h == getToday(day)
        outcome(parseResult) ==
            IF parseResult.outcome = "error"
            THEN [data |-> <<>>, allInitiatives |-> <<>>,
                  error |-> parseResult.error]
            ELSE IF Len(parseResult.initiatives) = 0
            THEN [data |-> <<>>, allInitiatives |-> <<>>,
                  error |-> NoValidInitiatives]
            ELSE [data |-> groupInitiativesByMonth(h, 1, parseResult.initiatives,
                                                   TEAM_CAPACITY_PER_MONTH).ret,
                  allInitiatives |-> parseResult.initiatives,
                  error |-> NoError]
    IN  outcome(parseCsvToInitiatives(h[1].day, csv))

\* DrilldownView renders monthData.initiatives.sort(...): the member list of
\* the selected bucket, which the data state shares, is sorted in place
renderDrilldownView(charts, selected) ==
    [charts EXCEPT ![selected].initiatives =
        stableSort(@, [k \in DOMAIN @ |-> @[k].onTrackStatus])]

removeAt(list, k) == SubSeq(list, 1, k - 1) \o SubSeq(list, k + 1, Len(list))

-----------------------------------------------------------------------------
(* The scope-tracking page (app/scope-tracking/page.tsx): calculations *)

(* A snapshot date is a whole day (the date of a file name, at midnight).  *)
(* A quotient of two numbers is the exact fraction n/d in lowest terms     *)
(* with d > 0; a result that can be null is <<>> or <<value>>.             *)

\* the empty string of the date filter
NoFilterDate == <<"", 0>>

abs(x) == IF x < 0 THEN -x ELSE x

RECURSIVE gcd(_, _)
gcd(a, b) == IF b = 0 THEN a ELSE gcd(b, a % b)

\* n / d for d > 0
quotient(n, d) ==
    LET g == gcd(abs(n), d)
    IN  [n |-> n \div g, d |-> d \div g]

\* a / b for quotients a and b with b > 0
divide(a, b) == quotient(a.n * b.d, a.d * b.n)

\* the number x, kept in units of 1/Scale, as a quotient
numberOf(x) == quotient(x, Scale)

\* processFile: the snapshot of the initiatives of one file
snapshot(date, name, initiatives) ==
    [ date |-> date,
      totalScope |-> Sum([k \in DOMAIN initiatives |-> initiatives[k].totalWork]),
      workDone |-> Sum([k \in DOMAIN initiatives |-> initiatives[k].doneWork]),
      fileName |-> name,
      initiativeCount |-> Len(initiatives),
      initiatives |-> initiatives ]

\* mutant: an initiative due on the filter day is left out
dueBy_Before(filterDateObj, i) ==
    /\ ~IsNaN(filterDateObj)
    /\ ~IsNaN(i.targetDate)
    /\ i.targetDate < filterDateObj

\* targetDate <= filterDateObj, the end of the filter day
dueBy(filterDateObj, i) ==
    /\ ~IsNaN(filterDateObj)
    /\ ~IsNaN(i.targetDate)
    /\ i.targetDate <= filterDateObj

getFilteredData(data, filter) ==
    IF filter = NoFilterDate
    THEN data
    ELSE LET filterDateObj == newDate(filter)
             filtered(dataPoint) ==
                 SelectSeq(dataPoint.initiatives,
                           LAMBDA i : dueBy(filterDateObj, i))
         IN  [k \in DOMAIN data |->
                [data[k] EXCEPT
                    !.totalScope =
                        Sum([j \in DOMAIN filtered(data[k]) |->
                                filtered(data[k])[j].totalWork]),
                    !.workDone =
                        Sum([j \in DOMAIN filtered(data[k]) |->
                                filtered(data[k])[j].doneWork]),
                    !.initiativeCount = Len(filtered(data[k]))]]

\* mutant: the snapshots are taken in the order of the array
sortByDate_Unsorted(list) == list

\* [...filteredData].sort((a, b) => a.date.getTime() - b.date.getTime())
sortByDate(list) == stableSort(list, [k \in DOMAIN list |-> list[k].date])

\* new Date(date.getTime() + days * 24 * 60 * 60 * 1000) for a quotient of
\* days: the time value is cut to whole milliseconds
plusDays(date, q) ==
    LET whole == q.n \div q.d
        seconds == (q.n % q.d) * 86400
    IN  dateObject(date + whole,
                   (seconds \div q.d) * 1000 + ((seconds % q.d) * 1000) \div q.d)

\* mutant: the work done is not taken off the scope
remainingWorkOf_WholeScope(latest) == latest.totalScope

remainingWorkOf(latest) == latest.totalScope - latest.workDone

calculateProjectedFinishDate(data, filter) ==
    LET filteredData == getFilteredData(data, filter)
    IN  IF Len(filteredData) < 2
        THEN <<>>
        ELSE LET sortedData == sortByDate(filteredData)
                 earliest == sortedData[1]
                 latest == sortedData[Len(sortedData)]
                 daysBetween == Max(1, latest.date - earliest.date)
                 workDoneDifference == latest.workDone - earliest.workDone
                 workRatePerDay ==
                     divide(numberOf(workDoneDifference), quotient(daysBetween, 1))
             IN  IF workRatePerDay.n <= 0
                 THEN <<>>
                 ELSE LET remainingWork == remainingWorkOf(latest)
                          daysRemaining ==
                              divide(numberOf(remainingWork), workRatePerDay)
                      IN  << [ projectedFinishDate |->
                                   plusDays(latest.date, daysRemaining),
                               workRatePerDay |-> workRatePerDay,
                               remainingWork |-> remainingWork,
                               daysRemaining |-> daysRemaining,
                               earliestDate |-> earliest.date,
                               latestDate |-> latest.date ] >>

\* the loop from the snapshot before the latest down to the first one
RECURSIVE comparisonIndex(_, _, _)
comparisonIndex(sortedData, i, fourteenDaysAgo) ==
    IF i < 1 THEN 1
    ELSE IF sortedData[i].date <= fourteenDaysAgo THEN i
    ELSE comparisonIndex(sortedData, i - 1, fourteenDaysAgo)

\* mutant: the comparison is always with the earliest snapshot
comparisonPointOf_Earliest(sortedData, fourteenDaysAgo) == sortedData[1]

\* the snapshot the latest one is compared with
comparisonPointOf(sortedData, fourteenDaysAgo) ==
    sortedData[comparisonIndex(sortedData, Len(sortedData) - 1, fourteenDaysAgo)]

calculateScopeCreep(data, filter) ==
    LET filteredData == getFilteredData(data, filter)
    IN  IF Len(filteredData) < 2
        THEN <<>>
        ELSE LET sortedData == sortByDate(filteredData)
                 latest == sortedData[Len(sortedData)]
                 fourteenDaysAgo == latest.date - 14
                 comparisonPoint == comparisonPointOf(sortedData, fourteenDaysAgo)
                 scopeChange == latest.totalScope - comparisonPoint.totalScope
                 daysBetween == Max(1, latest.date - comparisonPoint.date)
             IN  << [ scopeChange |-> scopeChange,
                      scopeChangePerDay |->
                          divide(numberOf(scopeChange), quotient(daysBetween, 1)),
                      comparisonDate |-> comparisonPoint.date,
                      latestDate |-> latest.date,
                      daysBetween |-> round(daysBetween * Scale) ] >>

\* a - b for quotients a and b
minus(a, b) == quotient(a.n * b.d - b.n * a.d, a.d * b.d)

\* a / b of JS numbers for quotients a and b: a division by zero gives
\* Infinity (1/0), -Infinity (-1/0) or NaN (0/0)
ratio(a, b) ==
    IF b.n = 0
    THEN [n |-> IF a.n > 0 THEN 1 ELSE IF a.n < 0 THEN -1 ELSE 0, d |-> 0]
    ELSE IF b.n > 0
    THEN quotient(a.n * b.d, a.d * b.n)
    ELSE quotient(-(a.n * b.d), a.d * (-b.n))

\* new Date(date.getTime() + q * 24 * 60 * 60 * 1000) for a Date object and
\* a quotient of days: a time value that is not finite gives an Invalid
\* Date, a finite one is cut to whole milliseconds (dates after 1970)
plusDaysOf(date, q) ==
    IF q.d = 0 \/ IsNaN(date.day)
    THEN InvalidDate
    ELSE LET whole == q.n \div q.d
             seconds == (q.n % q.d) * 86400
             total == date.ms + (seconds \div q.d) * 1000
                              + ((seconds % q.d) * 1000) \div q.d
         IN  dateObject(date.day + whole + total \div 86400000,
                        total % 86400000)

\* mutant: the scope change is not taken off the work rate
effectiveWorkRateOf_NoCreep(p, creep) == p.workRatePerDay

effectiveWorkRateOf(p, creep) == minus(p.workRatePerDay, creep.scopeChangePerDay)

\* the block {projection && scopeCreep && ...} of the render at time date
projectedWithCreep(p, creep, date) ==
    IF p = <<>> \/ creep = <<>>
    THEN <<>>
    ELSE LET effectiveWorkRate == effectiveWorkRateOf(p[1], creep[1])
             daysToCompletionWithCreep ==
                 ratio(numberOf(p[1].remainingWork), effectiveWorkRate)
         IN  << [ effectiveWorkRate |-> effectiveWorkRate,
                  daysToCompletionWithCreep |-> daysToCompletionWithCreep,
                  projectedDateWithCreep |->
                      plusDaysOf(date, daysToCompletionWithCreep) ] >>

-----------------------------------------------------------------------------
(* The scope-tracking page: uploads *)

(* A file name is its text with the part of it that matches                *)
(* /(\w{3}\s+\d{1,2},\s+\d{4})/, if any: <<three letters, number, year>>.  *)
(* A result that can be null is <<>> or <<value>>; the date of a snapshot  *)
(* is a whole day (local midnight), NaN for an Invalid Date.               *)

\* fileName.match(datePattern) found nothing
NoMatch == <<>>

\* the months whose abbreviation is the word given (none or one)
monthsNamed(word) == {m \in DOMAIN MonthNames : MonthNames[m] = word}

RECURSIVE daysBefore(_)
daysBefore(month) ==
    IF month = 1 THEN 0 ELSE daysBefore(month - 1) + MonthLengths[month - 1]

\* parse(text, "MMM d, yyyy", new Date()) of date-fns, for the years 1970
\* and 1971: an Invalid Date when the text names no calendar day
parse(dateString) ==
    LET months == monthsNamed(dateString[1])
        month == CHOOSE m \in months : TRUE
        year == dateString[3]
    IN  IF \/ months = {}
           \/ year \notin {1970, 1971}
           \/ dateString[2] < 1
           \/ dateString[2] > MonthLengths[month]
        THEN NaN
        ELSE (year - 1970) * 365 + daysBefore(month) + dateString[2] - 1

extractDateFromFileName(nameOfFile) ==
    IF nameOfFile.matched = NoMatch
    THEN <<>>
    ELSE << parse(nameOfFile.matched) >>

\* what processFile does: it throws the message or returns the snapshot
thrown(message) == [threw |-> TRUE, message |-> message, dataPoint |-> <<>>]

returns(dataPoint) == [threw |-> FALSE, message |-> <<>>, dataPoint |-> dataPoint]

CouldNotExtractDate == "Could not extract date from filename"

\* processFile on the day getToday() gives
processFile(file, day) ==
    LET date == extractDateFromFileName(file.name)
        outcome(parsed) ==
            IF parsed.outcome = "error"
            THEN thrown(parsed.error)
            ELSE returns(snapshot(date[1], file.name, parsed.initiatives))
    IN  IF date = <<>>
        THEN thrown(CouldNotExtractDate)
        ELSE outcome(parseCsvToInitiatives(day, file.contents))

\* mutant: the failure of a file is not reported
errorProcessing_Silent(file, message) == <<>>

\* setError(`Error processing ${file.name}: ${fileError}`)
errorProcessing(file, message) == << [fileName |-> file.name, cause |-> message] >>

\* the comparator (a, b) => a.date.getTime() - b.date.getTime() gives NaN,
\* which sort takes for 0, when one of the dates is invalid: with an invalid
\* date and two different valid ones it is not a consistent comparator
consistentComparator(list) ==
    \/ \A k \in DOMAIN list : ~IsNaN(list[k].date)
    \/ \A j, k \in DOMAIN list :
          (~IsNaN(list[j].date) /\ ~IsNaN(list[k].date)) =>
              list[j].date = list[k].date

\* [...].sort(...): the arrays that the sort can give.  With a consistent
\* comparator it is the stable sort (all elements are equal when a date is
\* invalid); otherwise the order is implementation-defined
sortOutcomes(list) ==
    IF consistentComparator(list)
    THEN IF \A k \in DOMAIN list : ~IsNaN(list[k].date)
         THEN { sortByDate(list) }
         ELSE { list }
    ELSE { [k \in DOMAIN list |-> list[p[k]]] : p \in Permutations(DOMAIN list) }

\* one call of onDrop that has not returned: the scopeData of the render
\* whose onDrop was called, the files not yet processed and newDataPoints
dropOf(data, files) == [data |-> data, files |-> files, newDataPoints |-> <<>>]

\* [...scopeData, ...newDataPoints] before the sort
mergedData(data, newDataPoints) == data \o newDataPoints

-----------------------------------------------------------------------------
(* Inputs *)

\* the reference dates: every third day up to MaxDay (all seven weekdays)
TodayDays == {d \in 0..MaxDay : (MaxDay - d) % 3 = 1}

DateText(d) == <<"iso", d>>

InvalidDateText == <<"", 0>>

StartTexts ==
    {InvalidDateText} \cup {DateText(d) : d \in {e \in 0..MaxDay : (MaxDay - e) % 6 = 2}}

TargetTexts ==
    {InvalidDateText} \cup {DateText(d) : d \in {e \in 0..MaxDay : (MaxDay - e) % 5 = 0}}

\* the to-do, in-progress numbers and the <<done, total>> pairs written in a
\* delivery status, in thousandths
TodoLiterals == {0, 5000, 250000}

InProgressLiterals == {0, 3000}

DoneTotalLiterals == {<<0, 10000>>, <<7000, 15000>>, <<15000, 15000>>, <<14996, 15000>>}

DeliveryTexts ==
    {<<>>}
    \cup {PipeText(a, b, ct[1], ct[2]) :
            a \in TodoLiterals, b \in InProgressLiterals, ct \in DoneTotalLiterals}
    \cup {CommaText(a, b, ct[1], ct[2]) :
            a \in TodoLiterals, b \in InProgressLiterals, ct \in DoneTotalLiterals}

EstimationStatusTexts ==
    { <<"E","s","t","i","m","a","t","e","d">>,
      <<"N","o","t"," ","E","s","t","i","m","a","t","e","d">>,
      <<"H","I","G","H"," ","L","E","V","E","L"," ","E","S","T","I","M","A","T","E">> }

EstimateTexts == { <<>>, <<"1","5">>, <<"-","5">> }

StatusTexts ==
    { <<"I","n"," ","P","r","o","g","r","e","s","s">>,
      <<"A","w","a","i","t","i","n","g"," ","R","e","q","u","i","r","e","m","e","n","t","s">> }

Rows ==
    [ summary : { <<"A">> },
      project_start : StartTexts,
      project_target : TargetTexts,
      delivery_status : DeliveryTexts,
      estimation_status : EstimationStatusTexts,
      estimate : EstimateTexts,
      status : StatusTexts,
      pm_customer : { <<"C">> } ]

NoRow ==
    [ summary |-> <<>>, project_start |-> InvalidDateText,
      project_target |-> InvalidDateText, delivery_status |-> <<>>,
      estimation_status |-> <<>>, estimate |-> <<>>, status |-> <<>>,
      pm_customer |-> <<>> ]

NoInitiative == parseCsvRowToInitiative(0, NoRow)

NoTable == [ errors |-> <<>>, fields |-> <<>>, hasFields |-> FALSE, data |-> <<>> ]

NoResult == [ outcome |-> "none", initiatives |-> <<>>, error |-> NoError ]

\* no call of the calendar utility is under way
DatesIdle ==
    /\ heap = <<>>
    /\ startArg = Null
    /\ endArg = Null
    /\ daysArg = 0
    /\ returned = {}
    /\ counted = 0
    /\ loop = NoLoop

\* no call of the monthly aggregator is under way
SummaryIdle ==
    /\ initiativeList = <<>>
    /\ capacityArg = Undefined
    /\ chartData = <<>>

\* the planner page as it is mounted
PlannerIdle ==
    /\ dataState = <<>>
    /\ fileName = NoFileName
    /\ error = NoError
    /\ selectedMonthData = Null
    /\ page = "home"
    /\ allInitiatives = <<>>
    /\ reads = <<>>

\* nothing is rendered yet
RenderIdle ==
    /\ filterResult = <<>>
    /\ now = dateObject(0, 0)
    /\ creepProjection = <<>>

\* no drop is under way: useState(false) and useState<string | null>(null)
DropIdle ==
    /\ isLoading = FALSE
    /\ scopeError = <<>>
    /\ drops = <<>>

\* the scope-tracking page as it is mounted
ScopeIdle ==
    /\ scopeData = <<>>
    /\ filterDate = NoFilterDate
    /\ projection = <<>>
    /\ scopeCreep = <<>>
    /\ RenderIdle
    /\ DropIdle

-----------------------------------------------------------------------------
(* The record normalizer applied to one row *)

InitRow ==
    /\ today \in TodayDays
    /\ row \in Rows
    /\ initiative = NoInitiative
    /\ table = NoTable
    /\ result = NoResult
    /\ normalized = 0
    /\ DatesIdle
    /\ SummaryIdle
    /\ PlannerIdle
    /\ ScopeIdle
    /\ pc = "row"

NormalizeRow ==
    /\ pc = "row"
    /\ initiative' = parseCsvRowToInitiative(today, row)
    /\ pc' = "normalized"
    /\ UNCHANGED <<today, row, table, result, normalized, dateVars, summaryVars, pageVars>>

NextRow == NormalizeRow

SpecRow == InitRow /\ [][NextRow]_vars

-----------------------------------------------------------------------------
(* The batch parser applied to one decoded table *)

EstimatedRow(summary, target, status) ==
    [ summary |-> summary,
      project_start |-> DateText(0),
      project_target |-> target,
      delivery_status |-> PipeText(5000, 3000, 7000, 15000),
      estimation_status |-> <<"E","s","t","i","m","a","t","e","d">>,
      estimate |-> <<"1","5">>,
      status |-> status,
      pm_customer |-> <<"C">> ]

InProgress == <<"I","n"," ","P","r","o","g","r","e","s","s">>

\* a row whose story points are fractional: 1.5 of 2.5 done
FractionalRow ==
    [ EstimatedRow(<<"D">>, DateText(MaxDay), InProgress)
        EXCEPT !.delivery_status = PipeText(500, 0, 1500, 2500) ]

\* rows with and without a name, with equal, different and invalid target
\* dates, one whose status is not a string, and one with fractional story
\* points
BatchRows ==
    { EstimatedRow(<<"A">>, DateText(MaxDay), InProgress),
      EstimatedRow(<<"B">>, DateText(MaxDay - 5), InProgress),
      EstimatedRow(<<"C">>, DateText(MaxDay - 5), InProgress),
      EstimatedRow(<<>>, DateText(MaxDay), InProgress),
      EstimatedRow(<<"A">>, InvalidDateText, InProgress),
      EstimatedRow(<<"A">>, DateText(MaxDay), ObjectValue),
      FractionalRow }

RECURSIVE SeqsUpTo(_, _)
SeqsUpTo(S, n) ==
    IF n = 0 THEN {<<>>}
    ELSE LET shorter == SeqsUpTo(S, n - 1)
         IN  shorter \cup {Append(q, x) : q \in shorter, x \in S}

DecoderErrors == { <<>>, <<"Quoted field unterminated">> }

AllFields == requiredColumns

FieldLists ==
    { AllFields,
      SelectSeq(AllFields, LAMBDA c : c # "estimate"),
      <<"summary", "extra">>,
      <<>> }

Tables ==
    { [ errors |-> e, fields |-> f, hasFields |-> TRUE, data |-> d ] :
        e \in DecoderErrors, f \in FieldLists, d \in SeqsUpTo(BatchRows, MaxRows) }
    \cup
    { [ errors |-> e, fields |-> <<>>, hasFields |-> FALSE, data |-> <<>> ] :
        e \in DecoderErrors }

BatchDays == {d \in TodayDays : d >= MaxDay - 8}

InitBatch ==
    /\ today \in BatchDays
    /\ row = NoRow
    /\ initiative = NoInitiative
    /\ table \in Tables
    /\ result = NoResult
    /\ normalized = 0
    /\ DatesIdle
    /\ SummaryIdle
    /\ PlannerIdle
    /\ ScopeIdle
    /\ pc = "table"

ParseCsv ==
    /\ pc = "table"
    /\ result' = parseCsvToInitiatives(today, table)
    /\ normalized' = rowsNormalized(table)
    /\ pc' = "parsed"
    /\ UNCHANGED <<today, row, initiative, table, dateVars, summaryVars, pageVars>>

NextBatch == ParseCsv

SpecBatch == InitBatch /\ [][NextBatch]_vars

-----------------------------------------------------------------------------
(* The calendar utility and its callers' dates *)

\* the calendar days of the date arguments: two weeks and more, so that
\* every weekday and a Monday with the Monday after it are among them
DateDays == (MaxDay - 16)..MaxDay

TimesOfDay == {0, 37800000}

\* NaN, negative, zero, fractional below one, whole and fractional numbers
DaysInputs == {NaN, -Scale, 0, Scale \div 2, Scale, (37 * Scale) \div 10, 5 * Scale}

\* a row of a started initiative and a row of an unstarted one
FrameRows ==
    { EstimatedRow(<<"A">>, DateText(MaxDay), InProgress),
      [EstimatedRow(<<"B">>, DateText(MaxDay - 5), InProgress)
          EXCEPT !.delivery_status = PipeText(5000, 3000, 0, 10000)] }

FrameTable(r) ==
    [ errors |-> <<>>, fields |-> AllFields, hasFields |-> TRUE,
      data |-> <<r, EstimatedRow(<<"C">>, DateText(MaxDay - 5), InProgress)>> ]

\* a date of the caller: a calendar day at a time of day, or an Invalid Date
callerDate(day, ms) == IF IsNaN(day) THEN InvalidDate ELSE dateObject(day, ms)

\* the caller holds two dates at the same time of day, valid or not, and
\* passes both, or nothing in place of one of them
TwoDates ==
    /\ heap \in { <<callerDate(a, t), callerDate(b, t)>> :
                    t \in TimesOfDay,
                    a \in DateDays \cup {NaN}, b \in DateDays \cup {NaN} }
    /\ \E passed \in {<<1, 2>>, <<Null, 2>>, <<1, Null>>} :
          /\ startArg = passed[1]
          /\ endArg = passed[2]
    /\ daysArg = 0
    /\ row = EstimatedRow(<<"A">>, DateText(MaxDay), InProgress)

\* the caller holds one date and passes it with a number of days or a row
OneDate ==
    /\ heap \in { <<callerDate(a, t)>> :
                    t \in TimesOfDay, a \in DateDays \cup {NaN} }
    /\ startArg = 1
    /\ endArg = Null
    /\ daysArg \in DaysInputs
    /\ row \in FrameRows

InitDates ==
    /\ today = 0
    /\ TwoDates \/ OneDate
    /\ initiative = NoInitiative
    /\ table = FrameTable(row)
    /\ result = NoResult
    /\ normalized = 0
    /\ returned = {}
    /\ counted = 0
    /\ loop = NoLoop
    /\ SummaryIdle
    /\ PlannerIdle
    /\ ScopeIdle
    /\ pc = "dates"

CalculateWorkingDays ==
    /\ pc = "dates"
    /\ LET call == calculateWorkingDaysCall(heap, startArg, endArg)
       IN  /\ heap' = call.heap
           /\ counted' = call.ret
    /\ pc' = "counted"
    /\ UNCHANGED <<csvVars, summaryVars, pageVars, startArg, endArg, daysArg, returned, loop>>

AddWorkingDays ==
    /\ pc = "dates"
    /\ startArg # Null
    /\ LET call == addWorkingDaysCall(heap, startArg, daysArg)
       IN  /\ heap' = call.heap
           /\ returned' = {call.ret}
    /\ pc' = "added"
    /\ UNCHANGED <<csvVars, summaryVars, pageVars, startArg, endArg, daysArg, counted, loop>>

\* today is the caller's first date; the pages pass getToday(), a valid date
NormalizeRowWithDate ==
    /\ pc = "dates"
    /\ startArg # Null
    /\ ~IsNaN(heap[startArg].day)
    /\ \E call \in {parseCsvRowToInitiativeCall(heap, startArg, row)} :
           /\ heap' = call.heap
           /\ returned' = call.ret
           /\ initiative' = call.initiative
    /\ pc' = "rowParsed"
    /\ UNCHANGED <<today, row, table, result, normalized, summaryVars, pageVars,
                   startArg, endArg, daysArg, counted, loop>>

ParseCsvWithDate ==
    /\ pc = "dates"
    /\ startArg # Null
    /\ ~IsNaN(heap[startArg].day)
    /\ \E call \in {parseCsvToInitiativesCall(heap, startArg, table)} :
           /\ heap' = call.heap
           /\ returned' = call.ret
           /\ result' = call.result
    /\ normalized' = rowsNormalized(table)
    /\ pc' = "csvParsed"
    /\ UNCHANGED <<today, row, initiative, table, summaryVars,
                   pageVars,
                   startArg, endArg, daysArg, counted, loop>>

NextDates ==
    \/ CalculateWorkingDays
    \/ AddWorkingDays
    \/ NormalizeRowWithDate
    \/ ParseCsvWithDate

SpecDates == InitDates /\ [][NextDates]_vars

-----------------------------------------------------------------------------
(* The loops of the calendar utility, one run of the body at a time *)

\* NaN, zero, a fraction below one, one, a fraction above three, a week of
\* working days, one more, and more than two weeks
LoopDays ==
    {NaN, 0, Scale \div 2, Scale, (37 * Scale) \div 10, 5 * Scale, 6 * Scale,
     11 * Scale}

\* the caller holds two dates at the same time of day and will count, or
\* one date and a number of days and will add
InitLoops ==
    /\ today = 0
    /\ row = NoRow
    /\ initiative = NoInitiative
    /\ table = NoTable
    /\ result = NoResult
    /\ normalized = 0
    /\ \/ /\ heap \in { <<callerDate(a, t), callerDate(b, t)>> :
                          t \in TimesOfDay,
                          a \in DateDays \cup {NaN}, b \in DateDays \cup {NaN} }
          /\ startArg = 1
          /\ endArg = 2
          /\ daysArg = 0
       \/ /\ heap \in { <<callerDate(a, t)>> :
                          t \in TimesOfDay, a \in DateDays \cup {NaN} }
          /\ startArg = 1
          /\ endArg = Null
          /\ daysArg \in LoopDays
    /\ returned = {}
    /\ counted = 0
    /\ loop = NoLoop
    /\ SummaryIdle
    /\ PlannerIdle
    /\ ScopeIdle
    /\ pc = "loops"

\* calculateWorkingDays up to its loop: return 0, or count = 0 and the copy
EnterCalculateWorkingDays ==
    /\ pc = "loops"
    /\ endArg # Null
    /\ IF \/ IsNaN(heap[startArg].day)
          \/ IsNaN(heap[endArg].day)
          \/ before(heap[endArg], heap[startArg])
       THEN /\ counted' = 0
            /\ pc' = "loopCounted"
            /\ UNCHANGED <<heap, loop>>
       ELSE /\ heap' = alloc(heap, heap[startArg])
            /\ loop' = enteredLoop(Len(heap'))
            /\ pc' = "counting"
            /\ UNCHANGED counted
    /\ UNCHANGED <<csvVars, summaryVars, pageVars, startArg, endArg, daysArg,
                   returned>>

\* while (curDate <= endDate): one run of the body
CalculateWorkingDaysBody ==
    /\ pc = "counting"
    /\ notAfter(heap[loop.curDate], heap[endArg])
    /\ \E body \in {countBody(heap, loop)} :
          /\ heap' = body.heap
          /\ loop' = body.loop
    /\ UNCHANGED <<csvVars, summaryVars, pageVars, startArg, endArg, daysArg,
                   returned, counted, pc>>

\* the loop is left: return count
CalculateWorkingDaysReturn ==
    /\ pc = "counting"
    /\ ~notAfter(heap[loop.curDate], heap[endArg])
    /\ counted' = loop.count
    /\ pc' = "loopCounted"
    /\ UNCHANGED <<csvVars, summaryVars, pageVars, heap, startArg, endArg,
                   daysArg, returned, loop>>

\* addWorkingDays up to its loop: a copy is returned, or count = 0 and the
\* copy curDate
EnterAddWorkingDays ==
    /\ pc = "loops"
    /\ endArg = Null
    /\ heap' = alloc(heap, heap[startArg])
    /\ IF IsNaN(daysArg) \/ daysArg <= 0
       THEN /\ returned' = {Len(heap')}
            /\ pc' = "loopAdded"
            /\ UNCHANGED loop
       ELSE /\ loop' = enteredLoop(Len(heap'))
            /\ pc' = "adding"
            /\ UNCHANGED returned
    /\ UNCHANGED <<csvVars, summaryVars, pageVars, startArg, endArg, daysArg,
                   counted>>

\* while (count < Math.floor(days)): one run of the body
AddWorkingDaysBody ==
    /\ pc = "adding"
    /\ loop.count < Floor(daysArg)
    /\ \E body \in {addBody(heap, loop)} :
          /\ heap' = body.heap
          /\ loop' = body.loop
    /\ UNCHANGED <<csvVars, summaryVars, pageVars, startArg, endArg, daysArg,
                   returned, counted, pc>>

\* the loop is left: return curDate
AddWorkingDaysReturn ==
    /\ pc = "adding"
    /\ ~(loop.count < Floor(daysArg))
    /\ returned' = {loop.curDate}
    /\ pc' = "loopAdded"
    /\ UNCHANGED <<csvVars, summaryVars, pageVars, heap, startArg, endArg,
                   daysArg, counted, loop>>

NextLoops ==
    \/ EnterCalculateWorkingDays
    \/ CalculateWorkingDaysBody
    \/ CalculateWorkingDaysReturn
    \/ EnterAddWorkingDays
    \/ AddWorkingDaysBody
    \/ AddWorkingDaysReturn

SpecLoops == InitLoops /\ [][NextLoops]_vars

\* the code is synchronous: a call that has a step to take takes it
FairLoops == SpecLoops /\ WF_vars(NextLoops)

-----------------------------------------------------------------------------
(* The monthly aggregator applied to one list of initiatives *)

\* the reference days: 1970-01-26 and 1970-02-04 when MaxDay is 20
SummaryTodays == {MaxDay + 5, MaxDay + 15}

\* target days before, on and after the reference days, in three months
SummaryTargets == {MaxDay - 10, MaxDay + 15, MaxDay + 45, NaN}

\* 2.5 and 0.4 days of work
SummaryWorkDays == {(5 * Scale) \div 2, (2 * Scale) \div 5}

InitiativeNames == <<"A", "B", "C", "D", "E", "F">>

summaryInitiative(k, targetDate, workDays) ==
    [NoInitiative EXCEPT !.name = <<InitiativeNames[k]>>,
                         !.targetDate = targetDate,
                         !.workDays = workDays]

\* the lists of at most MaxInitiatives initiatives of different names
InitiativeLists ==
    UNION { { [k \in 1..n |-> summaryInitiative(k, f[k][1], f[k][2])] :
                f \in [1..n -> SummaryTargets \X SummaryWorkDays] } :
            n \in 0..MaxInitiatives }

\* the caller's today is the first object of the heap, at midnight or not
InitSummary ==
    /\ today = 0
    /\ row = NoRow
    /\ initiative = NoInitiative
    /\ table = NoTable
    /\ result = NoResult
    /\ normalized = 0
    /\ heap \in { <<dateObject(d, t)>> : d \in SummaryTodays, t \in TimesOfDay }
    /\ startArg = 1
    /\ endArg = Null
    /\ daysArg = 0
    /\ returned = {}
    /\ counted = 0
    /\ loop = NoLoop
    /\ initiativeList \in InitiativeLists
    /\ capacityArg \in {Undefined, 30 * Scale}
    /\ chartData = <<>>
    /\ PlannerIdle
    /\ ScopeIdle
    /\ pc = "summary"

GroupInitiativesByMonth ==
    /\ pc = "summary"
    /\ LET call == groupInitiativesByMonth(heap, startArg, initiativeList,
                                           capacityArg)
       IN  /\ heap' = call.heap
           /\ initiativeList' = call.initiatives
           /\ chartData' = call.ret
    /\ pc' = "grouped"
    /\ UNCHANGED <<csvVars, pageVars, startArg, endArg, daysArg, returned,
                   counted, loop, capacityArg>>

NextSummary == GroupInitiativesByMonth

SpecSummary == InitSummary /\ [][NextSummary]_vars

-----------------------------------------------------------------------------
(* The planner page *)

AwaitingRequirementsText ==
    <<"A","w","a","i","t","i","n","g"," ","R","e","q","u","i","r","e","m","e","n","t","s">>

csvOf(rows) ==
    [ errors |-> <<>>, fields |-> AllFields, hasFields |-> TRUE, data |-> rows ]

\* the files a user can drop: two initiatives of one month of which the one
\* due first is awaiting requirements, one initiative, a file without the
\* required columns, and a file whose only row has no name
PlannerFiles ==
    { [ name |-> "two.csv",
        contents |-> csvOf(<<EstimatedRow(<<"A">>, DateText(MaxDay), InProgress),
                             EstimatedRow(<<"B">>, DateText(MaxDay - 5),
                                          AwaitingRequirementsText)>>) ],
      [ name |-> "one.csv",
        contents |-> csvOf(<<EstimatedRow(<<"C">>, DateText(MaxDay - 5), InProgress)>>) ],
      [ name |-> "bad.csv",
        contents |-> [ errors |-> <<>>, fields |-> <<"summary", "extra">>,
                       hasFields |-> TRUE,
                       data |-> <<EstimatedRow(<<"A">>, DateText(MaxDay), InProgress)>> ] ],
      [ name |-> "empty.csv",
        contents |-> csvOf(<<EstimatedRow(<<>>, DateText(MaxDay), InProgress)>>) ] }

sampleCSVData ==
    csvOf(<<EstimatedRow(<<"A">>, DateText(MaxDay), InProgress),
            EstimatedRow(<<"C">>, DateText(MaxDay - 5), InProgress)>>)

\* the days on which the page is used
PlannerDays == {MaxDay - 1, MaxDay}

InitPlanner ==
    /\ today = 0
    /\ row = NoRow
    /\ initiative = NoInitiative
    /\ table = NoTable
    /\ result = NoResult
    /\ normalized = 0
    /\ DatesIdle
    /\ SummaryIdle
    /\ PlannerIdle
    /\ ScopeIdle
    /\ pc = "planner"

\* processData, called by a completed read or by the sample-data button
ProcessData(day, csv) ==
    \E processed \in {processData(day, csv)} :
        /\ error' = processed.error
        /\ selectedMonthData' = Null
        /\ page' = "home"
        /\ dataState' = processed.data
        /\ allInitiatives' = processed.allInitiatives

\* onDrop: the name is shown at once, the contents are read asynchronously
OnDrop ==
    /\ pc = "planner"
    /\ Len(reads) < MaxReads
    /\ \E file \in PlannerFiles :
          /\ fileName' = file.name
          /\ reads' = Append(reads, file)
    /\ UNCHANGED <<csvVars, dateVars, summaryVars, scopeVars, renderVars, dropVars, pc, dataState, error,
                   selectedMonthData, page, allInitiatives>>

\* reader.onload of one of the reads under way, in any order
ReaderOnLoad ==
    /\ pc = "planner"
    /\ \E k \in DOMAIN reads, day \in PlannerDays :
          /\ ProcessData(day, reads[k].contents)
          /\ reads' = removeAt(reads, k)
    /\ UNCHANGED <<csvVars, dateVars, summaryVars, scopeVars, renderVars, dropVars, pc, fileName>>

HandleSampleData ==
    /\ pc = "planner"
    /\ fileName' = "sample-data.csv"
    /\ \E day \in PlannerDays : ProcessData(day, sampleCSVData)
    /\ UNCHANGED <<csvVars, dateVars, summaryVars, scopeVars, renderVars, dropVars, pc, reads>>

\* a click on a bar of the chart, which is shown on the home page when no
\* month is selected; the page then renders the drill-down of that month
HandleBarClick ==
    /\ pc = "planner"
    /\ page = "home"
    /\ selectedMonthData = Null
    /\ \E bar \in DOMAIN dataState :
          /\ selectedMonthData' = bar
          /\ dataState' = renderDrilldownView(dataState, bar)
    /\ UNCHANGED <<csvVars, dateVars, summaryVars, scopeVars, renderVars, dropVars, pc, fileName, error, page,
                   allInitiatives, reads>>

\* the back button of the drill-down and of the list of all initiatives
HandleBackToOverview ==
    /\ pc = "planner"
    /\ selectedMonthData # Null \/ page = "all"
    /\ selectedMonthData' = Null
    /\ page' = "home"
    /\ UNCHANGED <<csvVars, dateVars, summaryVars, scopeVars, renderVars, dropVars, pc, dataState, fileName,
                   error, allInitiatives, reads>>

\* the link "View All Initiatives" of the home page
ViewAll ==
    /\ pc = "planner"
    /\ page = "home"
    /\ selectedMonthData = Null
    /\ Len(allInitiatives) > 0
    /\ page' = "all"
    /\ UNCHANGED <<csvVars, dateVars, summaryVars, scopeVars, renderVars, dropVars, pc, dataState, fileName,
                   error, selectedMonthData, allInitiatives, reads>>

NextPlanner ==
    \/ OnDrop
    \/ ReaderOnLoad
    \/ HandleSampleData
    \/ HandleBarClick
    \/ HandleBackToOverview
    \/ ViewAll

SpecPlanner == InitPlanner /\ [][NextPlanner]_vars

-----------------------------------------------------------------------------
(* The calculations of the scope-tracking page on one snapshot collection *)

\* the days of the snapshots: the latest day, and 7, 14 and 20 days before
SnapshotDays == {MaxDay - 20, MaxDay - 14, MaxDay - 7, MaxDay}

scopeInitiative(name, targetDate, totalWork, doneWork) ==
    [NoInitiative EXCEPT !.name = name,
                         !.targetDate = targetDate,
                         !.totalWork = totalWork,
                         !.doneWork = doneWork]

\* an initiative due on the later filter day, with 20 of 100 days done,
\* alone; or a finished initiative due before the earlier filter day with
\* an unstarted one due on the later filter day (50 of 100 days done) and
\* an initiative due after both
SnapshotInitiatives ==
    { << scopeInitiative(<<"A">>, MaxDay - 5, 100 * Scale, 20 * Scale) >>,
      << scopeInitiative(<<"C">>, MaxDay - 8, 50 * Scale, 50 * Scale),
         scopeInitiative(<<"A">>, MaxDay - 5, 50 * Scale, 0),
         scopeInitiative(<<"B">>, MaxDay + 10, 30 * Scale, 10 * Scale) >> }

\* no filter, and a filter five or six days before the latest snapshot day
FilterDates == {NoFilterDate, DateText(MaxDay - 5), DateText(MaxDay - 6)}

SnapshotFileNames == <<"f1", "f2", "f3", "f4", "f5", "f6">>

\* the collections of at most MaxSnapshots snapshots, in any order of their
\* dates, with files of different names
SnapshotCollections ==
    UNION { { [k \in 1..n |-> snapshot(f[k][1], SnapshotFileNames[k], f[k][2])] :
                f \in [1..n -> SnapshotDays \X SnapshotInitiatives] } :
            n \in 0..MaxSnapshots }

InitProjector ==
    /\ today = 0
    /\ row = NoRow
    /\ initiative = NoInitiative
    /\ table = NoTable
    /\ result = NoResult
    /\ normalized = 0
    /\ DatesIdle
    /\ SummaryIdle
    /\ PlannerIdle
    /\ scopeData \in SnapshotCollections
    /\ filterDate \in FilterDates
    /\ projection = <<>>
    /\ scopeCreep = <<>>
    /\ RenderIdle
    /\ DropIdle
    /\ pc = "scope"

\* a render of the page calculates the projection, then the scope creep
CalculateProjectedFinishDate ==
    /\ pc = "scope"
    /\ projection' = calculateProjectedFinishDate(scopeData, filterDate)
    /\ pc' = "projected"
    /\ UNCHANGED <<csvVars, dateVars, summaryVars, plannerVars,
                   scopeData, filterDate, scopeCreep, renderVars, dropVars>>

CalculateScopeCreep ==
    /\ pc = "projected"
    /\ scopeCreep' = calculateScopeCreep(scopeData, filterDate)
    /\ pc' = "calculated"
    /\ UNCHANGED <<csvVars, dateVars, summaryVars, plannerVars,
                   scopeData, filterDate, projection, renderVars, dropVars>>

\* the times of a render: new Date()
RenderTimes == {dateObject(MaxDay, 0), dateObject(MaxDay + 3, 37800000)}

\* the render calls getFilteredData() for the chart
GetFilteredData ==
    /\ pc = "scope"
    /\ filterResult' = getFilteredData(scopeData, filterDate)
    /\ pc' = "filtered"
    /\ UNCHANGED <<csvVars, dateVars, summaryVars, plannerVars, scopeVars,
                   now, creepProjection, dropVars>>

\* the render shows the projection with scope creep when there are both a
\* projection and a scope change
RenderCreepProjection ==
    /\ pc = "calculated"
    /\ \E date \in RenderTimes :
          /\ now' = date
          /\ creepProjection' = projectedWithCreep(projection, scopeCreep, date)
    /\ pc' = "rendered"
    /\ UNCHANGED <<csvVars, dateVars, summaryVars, plannerVars, scopeVars,
                   filterResult, dropVars>>

NextProjector ==
    \/ GetFilteredData
    \/ CalculateProjectedFinishDate
    \/ CalculateScopeCreep
    \/ RenderCreepProjection

SpecProjector == InitProjector /\ [][NextProjector]_vars

-----------------------------------------------------------------------------
(* The uploads of the scope-tracking page *)

\* the day of the month of a day
dayOfMonth(day) == (day % 365) - daysBefore(formatYearMonth(day)[2]) + 1

\* a file name that has the date of the day given in it
fileNameOn(text, day) ==
    [ text |-> text,
      matched |-> <<MonthNames[formatYearMonth(day)[2]], dayOfMonth(day),
                    1970 + day \div 365>> ]

\* an export of the latest day with one initiative
LatestFile ==
    [ name |-> fileNameOn("Planning", MaxDay),
      contents |-> csvOf(<<EstimatedRow(<<"C">>, DateText(MaxDay - 5), InProgress)>>) ]

\* an export of a week before with two initiatives
EarlierFile ==
    [ name |-> fileNameOn("Planning", MaxDay - 7),
      contents |-> csvOf(<<EstimatedRow(<<"A">>, DateText(MaxDay), InProgress),
                           EstimatedRow(<<"C">>, DateText(MaxDay - 5), InProgress)>>) ]

\* a file without a date in its name
UndatedFile ==
    [ name |-> [text |-> "random-file.csv", matched |-> NoMatch],
      contents |-> LatestFile.contents ]

\* a file without the required columns
BadCsvFile ==
    [ name |-> fileNameOn("Broken", MaxDay),
      contents |-> [ errors |-> <<>>, fields |-> <<"summary", "extra">>,
                     hasFields |-> TRUE,
                     data |-> <<EstimatedRow(<<"A">>, DateText(MaxDay), InProgress)>> ] ]

\* a file whose name has a date that is no calendar day: "Jan 32, 1970"
MisdatedFile ==
    [ name |-> [text |-> "Planning", matched |-> <<"Jan", 32, 1970>>],
      contents |-> LatestFile.contents ]

\* the files of one drop
DropChoices ==
    { <<>>, <<LatestFile>>, <<EarlierFile>>, <<LatestFile, EarlierFile>>,
      <<UndatedFile, EarlierFile>>, <<BadCsvFile, LatestFile>>,
      <<MisdatedFile>> }

\* the day on which the page is used
DropDays == {MaxDay}

InitDrops ==
    /\ today = 0
    /\ row = NoRow
    /\ initiative = NoInitiative
    /\ table = NoTable
    /\ result = NoResult
    /\ normalized = 0
    /\ DatesIdle
    /\ SummaryIdle
    /\ PlannerIdle
    /\ ScopeIdle
    /\ pc = "drops"

\* the files of the calls of onDrop that have not returned
filesUnderWay ==
    Sum([k \in DOMAIN drops |->
            Len(drops[k].files) + Len(drops[k].newDataPoints)])

\* onDrop up to its first await: with no file it runs to its end at once
OnDropFiles ==
    /\ pc = "drops"
    /\ Len(drops) < MaxDrops
    /\ \E acceptedFiles \in DropChoices :
          /\ Len(scopeData) + filesUnderWay + Len(acceptedFiles) <= MaxUploads
          /\ scopeError' = <<>>
          /\ IF acceptedFiles = <<>>
             THEN /\ scopeData' \in sortOutcomes(mergedData(scopeData, <<>>))
                  /\ isLoading' = FALSE
                  /\ drops' = drops
             ELSE /\ scopeData' = scopeData
                  /\ isLoading' = TRUE
                  /\ drops' = Append(drops, dropOf(scopeData, acceptedFiles))
    /\ UNCHANGED <<csvVars, dateVars, summaryVars, plannerVars, filterDate,
                   projection, scopeCreep, renderVars, pc>>

\* a call of onDrop goes on after the await of processFile for its next
\* file, up to the next await or, after the last file, to its end
FileProcessed(k) ==
    /\ pc = "drops"
    /\ \E day \in DropDays :
       \E processed \in {processFile(Head(drops[k].files), day)} :
          LET file == Head(drops[k].files)
              newDataPoints ==
                  IF processed.threw
                  THEN drops[k].newDataPoints
                  ELSE Append(drops[k].newDataPoints, processed.dataPoint)
          IN  /\ scopeError' = IF processed.threw
                               THEN errorProcessing(file, processed.message)
                               ELSE scopeError
              /\ IF Len(drops[k].files) > 1
                 THEN /\ drops' = [drops EXCEPT ![k].files = Tail(@),
                                                ![k].newDataPoints = newDataPoints]
                      /\ UNCHANGED <<scopeData, isLoading>>
                 ELSE /\ scopeData'
                            \in sortOutcomes(mergedData(drops[k].data, newDataPoints))
                      /\ isLoading' = FALSE
                      /\ drops' = removeAt(drops, k)
    /\ UNCHANGED <<csvVars, dateVars, summaryVars, plannerVars, filterDate,
                   projection, scopeCreep, renderVars, pc>>

ClearData ==
    /\ pc = "drops"
    /\ scopeData' = <<>>
    /\ scopeError' = <<>>
    /\ filterDate' = NoFilterDate
    /\ UNCHANGED <<csvVars, dateVars, summaryVars, plannerVars,
                   projection, scopeCreep, renderVars, isLoading, drops, pc>>

NextDrops ==
    \/ OnDropFiles
    \/ \E k \in DOMAIN drops : FileProcessed(k)
    \/ ClearData

SpecDrops == InitDrops /\ [][NextDrops]_vars

-----------------------------------------------------------------------------
(* Claims about the batch parser (checked under SpecBatch) *)

Parsed == pc = "parsed"

\* the table passes validation: no decoder error, a header list holding the
\* eight required columns, at least one data row
PassesValidation ==
    /\ table.errors = <<>>
    /\ table.hasFields
    /\ \A i \in 1..Len(requiredColumns) : requiredColumns[i] \in Range(table.fields)
    /\ table.data # <<>>

\* every value of every row is a string, as the decoder produces them
AllStrings == \A i \in 1..Len(table.data) : ~rowThrows(table.data[i])

Occurrences(list, x) == Cardinality({i \in 1..Len(list) : list[i] = x})

\* the number of data rows whose Initiative is x and passes the discard rule
KeptOccurrences(x) ==
    Cardinality({i \in 1..Len(table.data) :
                    /\ parseCsvRowToInitiative(today, table.data[i]) = x
                    /\ x.name # <<>>
                    /\ ~IsNaN(x.targetDate)
                    /\ ~IsNaN(x.workDays)})

\* C1: for a decoded table that passes validation the result is the success
\* variant; its list holds exactly the normalized rows with a non-empty
\* name, a valid targetDate and a non-NaN workDays, each as often as it
\* occurs in the table, in ascending order of targetDate.
C1_SuccessList ==
    (Parsed /\ PassesValidation /\ AllStrings) =>
        /\ result.outcome = "success"
        /\ \A i \in 1..Len(table.data) :
              LET x == parseCsvRowToInitiative(today, table.data[i])
              IN  Occurrences(result.initiatives, x) = KeptOccurrences(x)
        /\ \A i \in 1..Len(result.initiatives) :
              Occurrences(result.initiatives, result.initiatives[i])
                  = KeptOccurrences(result.initiatives[i])
        /\ \A i, j \in 1..Len(result.initiatives) :
              i < j => result.initiatives[i].targetDate
                          <= result.initiatives[j].targetDate

\* a three-row table given latest date first, with one row dropped: two
\* Initiatives come back, re-ordered
C1_Witness ==
    /\ Parsed
    /\ PassesValidation
    /\ AllStrings
    /\ Len(table.data) = 3
    /\ newDate(table.data[1].project_target) > newDate(table.data[2].project_target)
    /\ table.data[3].summary = <<>>
    /\ result.outcome = "success"
    /\ Len(result.initiatives) = 2
    /\ result.initiatives[1].name = table.data[2].summary
    /\ result.initiatives[2].name = table.data[1].summary

\* C2: decoder errors, zero data rows or an absent required column give the
\* error variant; decoder errors win over schema errors; the schema error
\* lists exactly the absent required columns; no row is normalized.
C2_ErrorVariant ==
    Parsed =>
        /\ table.errors # <<>> =>
              /\ result.outcome = "error"
              /\ result.error.kind = "Error parsing CSV"
              /\ result.error.messages = table.errors
              /\ normalized = 0
        /\ (table.errors = <<>> /\ ~table.hasFields) =>
              /\ result.outcome = "error"
              /\ normalized = 0
        /\ (/\ table.errors = <<>>
            /\ table.hasFields
            /\ \/ table.data = <<>>
               \/ \E i \in 1..Len(requiredColumns) :
                      requiredColumns[i] \notin Range(table.fields)) =>
              /\ result.outcome = "error"
              /\ result.error.kind = "Invalid CSV format"
              /\ Range(result.error.missing) =
                    {c \in Range(requiredColumns) : c \notin Range(table.fields)}
              /\ Len(result.error.missing) = Cardinality(Range(result.error.missing))
              /\ result.error.found = table.fields
              /\ normalized = 0
        /\ result.outcome = "error" => result.initiatives = <<>>

\* a table with data rows that lacks only the estimate column
C2_Witness ==
    /\ Parsed
    /\ table.errors = <<>>
    /\ table.hasFields
    /\ table.data # <<>>
    /\ result.outcome = "error"
    /\ result.error.kind = "Invalid CSV format"
    /\ result.error.missing = <<"estimate">>
    /\ normalized = 0

\* C3: the result is always exactly one of the two variants, and when the
\* normalizer raises on a row of a validated table the whole call returns
\* the error variant carrying the fault's message, without any list.
C3_NoFaultEscapes ==
    Parsed =>
        /\ result.outcome \in {"success", "error"}
        /\ result.outcome = "success" => result.error = NoError
        /\ result.outcome = "error" =>
              /\ result.initiatives = <<>>
              /\ result.error.kind # ""
        /\ (PassesValidation /\ ~AllStrings) =>
              /\ result.outcome = "error"
              /\ result.error.kind = "Error processing CSV data"
              /\ \E i \in 1..Len(table.data) :
                    /\ rowThrows(table.data[i])
                    /\ \A j \in 1..(i - 1) : ~rowThrows(table.data[j])
                    /\ result.error.messages = <<faultMessage(table.data[i])>>
                    /\ normalized = i

\* two sound rows followed by one on which the normalizer raises
C3_Witness ==
    /\ Parsed
    /\ PassesValidation
    /\ Len(table.data) = 3
    /\ ~rowThrows(table.data[1])
    /\ ~rowThrows(table.data[2])
    /\ rowThrows(table.data[3])
    /\ keep(parseCsvRowToInitiative(today, table.data[1]))
    /\ result.outcome = "error"
    /\ result.error.kind = "Error processing CSV data"
    /\ result.initiatives = <<>>

-----------------------------------------------------------------------------
(* Claims about the record normalizer (checked under SpecRow) *)

Normalized == pc = "normalized"

RowEstimationStatus == lowerOrEmpty(row.estimation_status)

RowTodo == matched(todoMatch(row.delivery_status))

RowInProgress == matched(inProgressMatch(row.delivery_status))

RowTotal == matched(totalMatch(row.delivery_status))

PercentIs(p, value) == p.n = value * p.d

PercentInRange(p) == p.d > 0 /\ 0 <= p.n /\ p.n <= 100 * p.d

\* C4: workDays/totalWork follow the strict precedence: a row still being
\* estimated gets workDays = totalWork = estimate whatever its delivery
\* status says; otherwise an extracted to-do above 200 gives workDays =
\* calculateWorkingDays(start, target); otherwise workDays = todo + 0.5 *
\* inProgress; totalWork is the extracted total in the two latter cases.
C4_Precedence ==
    Normalized =>
        IF RowEstimationStatus \in {NotEstimated, HighLevelEstimate}
        THEN /\ initiative.workDays = estimateOf(row.estimate)
             /\ initiative.totalWork = estimateOf(row.estimate)
        ELSE IF RowTodo > 200 * Scale
        THEN /\ initiative.workDays =
                    Scale * calculateWorkingDays(newDate(row.project_start),
                                                 newDate(row.project_target))
             /\ initiative.totalWork = RowTotal
        ELSE /\ 2 * initiative.workDays = 2 * RowTodo + RowInProgress
             /\ initiative.totalWork = RowTotal

\* a row still being estimated whose delivery status carries a to-do above
\* 200 and another total: the estimate wins
C4_Witness ==
    /\ Normalized
    /\ RowEstimationStatus = NotEstimated
    /\ RowTodo > 200 * Scale
    /\ RowTotal # estimateOf(row.estimate)
    /\ calculateWorkingDays(newDate(row.project_start), newDate(row.project_target)) > 0
    /\ initiative.workDays = 15 * Scale
    /\ initiative.totalWork = 15 * Scale

\* C5: an estimated row whose delivery status is "To Do: a, In Progress: b,
\* Done: c of t story points" yields doneWork = c, totalWork = t and
\* workDays = a + 0.5 * b when a <= 200, calculateWorkingDays(start, target)
\* when a > 200.
C5_CommaShape ==
    Normalized =>
        \A a \in TodoLiterals, b \in InProgressLiterals, ct \in DoneTotalLiterals :
            (/\ row.delivery_status = CommaText(a, b, ct[1], ct[2])
             /\ RowEstimationStatus = toLowerCase(<<"E","s","t","i","m","a","t","e","d">>))
            => /\ initiative.doneWork * 1000 = ct[1] * Scale
               /\ initiative.totalWork * 1000 = ct[2] * Scale
               /\ a <= 200 * 1000 =>
                    2 * initiative.workDays * 1000 = (2 * a + b) * Scale
               /\ a > 200 * 1000 =>
                    initiative.workDays =
                        Scale * calculateWorkingDays(newDate(row.project_start),
                                                     newDate(row.project_target))

\* C6: both percentages of every Initiative lie in [0, 100].
C6_PercentRange ==
    Normalized =>
        /\ PercentInRange(initiative.percentComplete)
        /\ PercentInRange(initiative.expectedCompletion)

\* more work left than the total, and a reference date before the start
C6_Witness ==
    /\ Normalized
    /\ initiative.totalWork > 0
    /\ initiative.workDays > initiative.totalWork
    /\ PercentIs(initiative.percentComplete, 0)
    /\ ~IsNaN(newDate(row.project_start))
    /\ ~IsNaN(newDate(row.project_target))
    /\ newDate(row.project_target) > newDate(row.project_start)
    /\ today < newDate(row.project_start)
    /\ PercentIs(initiative.expectedCompletion, 0)

\* C7 as claimed: onTrackStatus <= totalWork for every Initiative produced
\* (stated where onTrackStatus is a number, that is for a valid target date).
C7_BoundedByTotalWork ==
    (Normalized /\ ~IsNaN(initiative.targetDate)) =>
        /\ ~IsNaN(initiative.onTrackStatus)
        /\ initiative.onTrackStatus <= initiative.totalWork

\* C7 amended: with a valid target date onTrackStatus <= max(totalWork, 0),
\* and it exceeds totalWork only when a force-to-zero rule set it to 0 on a
\* row of negative totalWork; with an invalid target date it is NaN or 0.
C7_BoundedWhenValid ==
    Normalized =>
        IF IsNaN(initiative.targetDate)
        THEN IsNaN(initiative.onTrackStatus) \/ initiative.onTrackStatus = 0
        ELSE /\ ~IsNaN(initiative.onTrackStatus)
             /\ initiative.onTrackStatus <= Max(initiative.totalWork, 0)
             /\ initiative.onTrackStatus > initiative.totalWork
                    => /\ initiative.onTrackStatus = 0
                       /\ initiative.totalWork < 0
                       /\ toLowerCase(row.status) = AwaitingRequirements

\* the clamp has acted: the target lies further ahead of the projected finish
\* than the total work, and onTrackStatus is the total work
C7_Witness ==
    /\ Normalized
    /\ ~IsNaN(initiative.targetDate)
    /\ initiative.totalWork > 0
    /\ (initiative.targetDate - initiative.projectedFinishDate) * Scale
            > initiative.totalWork
    /\ initiative.onTrackStatus = initiative.totalWork

\* C8: onTrackStatus is 0 for every row whose status is "awaiting
\* requirements" in any letter case, and for every row whose doneWork and
\* totalWork agree to two decimals with totalWork > 0.
C8_ForcedToZero ==
    Normalized =>
        /\ toLowerCase(row.status) = AwaitingRequirements
                => initiative.onTrackStatus = 0
        /\ (/\ toFixed2(initiative.doneWork) = toFixed2(initiative.totalWork)
            /\ initiative.totalWork > 0)
                => initiative.onTrackStatus = 0

\* done and total differ but agree to two decimals (14.996 of 15), the
\* projected finish is not the target date, and onTrackStatus is 0
C8_Witness ==
    /\ Normalized
    /\ toLowerCase(row.status) # AwaitingRequirements
    /\ initiative.doneWork # initiative.totalWork
    /\ toFixed2(initiative.doneWork) = toFixed2(initiative.totalWork)
    /\ initiative.totalWork > 0
    /\ ~IsNaN(initiative.targetDate)
    /\ initiative.targetDate # initiative.projectedFinishDate
    /\ initiative.onTrackStatus = 0

\* C9 as claimed: doneWork = totalWork > 0 yields percentComplete = 100 and
\* onTrackStatus = 0 whatever the other numbers and the estimation status.
C9_CompleteIsHundred ==
    (/\ Normalized
     /\ initiative.doneWork = initiative.totalWork
     /\ initiative.totalWork > 0)
            => /\ PercentIs(initiative.percentComplete, 100)
               /\ initiative.onTrackStatus = 0

\* C9 amended: doneWork = totalWork > 0 yields onTrackStatus = 0, and
\* percentComplete = 100 exactly when workDays is 0.
C9_CompleteWhenNoWorkLeft ==
    (/\ Normalized
     /\ initiative.doneWork = initiative.totalWork
     /\ initiative.totalWork > 0)
            => /\ initiative.onTrackStatus = 0
               /\ PercentIs(initiative.percentComplete, 100)
                    <=> initiative.workDays = 0

\* "To Do: 0 .. | In Progress: 0 .. | Done: 15 of 15 story points", estimated
C9_Witness ==
    /\ Normalized
    /\ initiative.doneWork = 15 * Scale
    /\ initiative.totalWork = 15 * Scale
    /\ initiative.workDays = 0
    /\ PercentIs(initiative.percentComplete, 100)
    /\ initiative.onTrackStatus = 0
    /\ ~IsNaN(initiative.targetDate)
    /\ initiative.targetDate # initiative.projectedFinishDate

\* C10: with doneWork = 0 and a valid target date the projected finish is
\* max(addWorkingDays(today, workDays), targetDate), hence not before the
\* target and onTrackStatus <= 0; with doneWork > 0 it is
\* addWorkingDays(today, workDays), without a floor.
C10_UnstartedFloor ==
    (Normalized /\ ~IsNaN(initiative.targetDate)) =>
        /\ initiative.doneWork = 0 =>
            /\ initiative.projectedFinishDate =
                    Max(addWorkingDays(today, initiative.workDays),
                        initiative.targetDate)
            /\ initiative.projectedFinishDate >= initiative.targetDate
            /\ initiative.onTrackStatus <= 0
        /\ initiative.doneWork > 0 =>
            initiative.projectedFinishDate =
                    addWorkingDays(today, initiative.workDays)

\* an unstarted row whose work would end before its target date
C10_Witness ==
    /\ Normalized
    /\ ~IsNaN(initiative.targetDate)
    /\ initiative.doneWork = 0
    /\ initiative.workDays > 0
    /\ addWorkingDays(today, initiative.workDays) < initiative.targetDate
    /\ initiative.projectedFinishDate = initiative.targetDate
    /\ initiative.onTrackStatus = 0

-----------------------------------------------------------------------------
(* Claims about the calendar utility (checked under SpecDates) *)

Weekdays(from, to) == {d \in from..to : getDay(d) \in 1..5}

\* the date returned by addWorkingDays
ReturnedDate == heap[CHOOSE r \in returned : TRUE]

(* C11: parseCsvRowToInitiative, parseCsvToInitiatives and addWorkingDays   *)
(* leave the date passed to them as it was: a call changes no Date object   *)
(* that existed before it, and every date it returns is a new object.       *)
C11_DatesPassedUnchanged ==
    [][ (pc = "dates" /\ pc' \in {"added", "rowParsed", "csvParsed"}) =>
           /\ Len(heap') > Len(heap)
           /\ \A ref \in DOMAIN heap : heap'[ref] = heap[ref]
           /\ returned' # {}
           /\ \A ref \in returned' : ref \notin DOMAIN heap ]_vars

\* addWorkingDays has moved on from a date at 10:30 that the caller still holds
C11_Witness ==
    /\ pc = "added"
    /\ daysArg >= Scale
    /\ heap[startArg].ms # 0
    /\ ReturnedDate.day > heap[startArg].day
    /\ ReturnedDate.ms = heap[startArg].ms

C13_AddWorkingDaysLaw ==
    (pc = "added" /\ ~IsNaN(heap[startArg].day)) =>
        LET s == heap[startArg].day
            r == ReturnedDate.day
        IN  /\ (IsNaN(daysArg) \/ daysArg <= 0) => ReturnedDate = heap[startArg]
            /\ (~IsNaN(daysArg) /\ daysArg >= Scale) =>
                  /\ r > s
                  /\ getDay(r) \in 1..5
                  /\ Cardinality(Weekdays(s + 1, r)) = Floor(daysArg)
            /\ ~IsNaN(daysArg) => r = addWorkingDays(s, Floor(daysArg) * Scale)

\* 3.7 working days after a Friday is the Wednesday after it
C13_Witness ==
    /\ pc = "added"
    /\ daysArg = (37 * Scale) \div 10
    /\ ~IsNaN(heap[startArg].day)
    /\ getDay(heap[startArg].day) = 5
    /\ ReturnedDate.day = heap[startArg].day + 5

-----------------------------------------------------------------------------
(* Claims about the monthly aggregator (checked under SpecSummary) *)

Grouped == pc = "grouped"

\* the buckets that hold initiative i, and how often bucket b holds it
BucketsWith(i) ==
    {b \in DOMAIN chartData : includes(chartData[b].initiatives, i)}

TimesIn(b, i) == Occurrences(chartData[b].initiatives, i)

\* the month an initiative is due in: that of today when it is overdue
DueMonth(i) ==
    IF i.targetDate < heap[startArg].day
    THEN formatYearMonth(heap[startArg].day)
    ELSE formatYearMonth(i.targetDate)

(* C14: groupInitiativesByMonth partitions its input: an initiative with a  *)
(* valid target date is in exactly one bucket, one with an invalid target   *)
(* date in none; the bucket is that of today's month when the target date   *)
(* is before today, and that of the month of the target date otherwise.     *)
C14_Partition ==
    Grouped =>
        /\ \A k \in DOMAIN initiativeList :
              LET i == initiativeList[k]
              IN  IF IsNaN(i.targetDate)
                  THEN BucketsWith(i) = {}
                  ELSE \E b \in DOMAIN chartData :
                          /\ BucketsWith(i) = {b}
                          /\ TimesIn(b, i) = 1
                          /\ chartData[b].name = formatMonthName(DueMonth(i))
        /\ \A b \in DOMAIN chartData :
              /\ chartData[b].initiatives # <<>>
              /\ \A k \in DOMAIN chartData[b].initiatives :
                    includes(initiativeList, chartData[b].initiatives[k])
        /\ \A a, b \in DOMAIN chartData :
              a # b => chartData[a].name # chartData[b].name

\* an initiative due in January was rolled into February, another one has
\* no valid target date, and a third one is in the bucket of its own month
C14_Witness ==
    /\ Grouped
    /\ Len(chartData) = 2
    /\ chartData[1].name = <<"Feb", 70>>
    /\ \E k \in DOMAIN initiativeList :
          /\ ~IsNaN(initiativeList[k].targetDate)
          /\ formatYearMonth(initiativeList[k].targetDate) = <<1970, 1>>
          /\ includes(chartData[1].initiatives, initiativeList[k])
    /\ \E k \in DOMAIN initiativeList : IsNaN(initiativeList[k].targetDate)
    /\ chartData[2].name = <<"Mar", 70>>

\* the exact sum of the work days of the members of bucket b
ExactWork(b) ==
    Sum([k \in DOMAIN chartData[b].initiatives |->
            chartData[b].initiatives[k].workDays])

(* C15: the work of every bucket is the sum of the work days of its members *)
(* rounded once to the nearest integer, its capacity is the capacity given  *)
(* (20 when none is given), and an empty input gives no bucket.             *)
C15_WorkAndCapacity ==
    Grouped =>
        /\ \A b \in DOMAIN chartData :
              /\ chartData[b].work % Scale = 0
              /\ 2 * chartData[b].work <= 2 * ExactWork(b) + Scale
              /\ 2 * ExactWork(b) + Scale < 2 * chartData[b].work + 2 * Scale
              /\ chartData[b].capacity =
                    IF capacityArg = Undefined THEN 20 * Scale ELSE capacityArg
        /\ initiativeList = <<>> => chartData = <<>>

\* two members of 2.5 days each make 5 days of work, at the default capacity
C15_Witness ==
    /\ Grouped
    /\ capacityArg = Undefined
    /\ \E b \in DOMAIN chartData :
          /\ Len(chartData[b].initiatives) = 2
          /\ ExactWork(b) = 5 * Scale
          /\ chartData[b].work = 5 * Scale
          /\ chartData[b].capacity = 20 * Scale

(* C16: groupInitiativesByMonth leaves the today date it is given as it     *)
(* was, and leaves the caller's list of initiatives unchanged in content    *)
(* and order.                                                               *)
C16_ArgumentsUnchanged ==
    [][ (pc = "summary" /\ pc' = "grouped") =>
           /\ heap'[startArg] = heap[startArg]
           /\ initiativeList' = initiativeList ]_vars

-----------------------------------------------------------------------------
(* Claims about the planner page (checked under SpecPlanner) *)

(* C17: once a bucket is in the data state of the planner page, no user     *)
(* action other than an upload (a bar click with its drill-down view, back, *)
(* view all) changes it: name, work, capacity and the order and content of  *)
(* its member list stay as groupInitiativesByMonth produced them.           *)
C17_BucketsNeverMutated ==
    [][ (HandleBarClick \/ HandleBackToOverview \/ ViewAll) =>
           dataState' = dataState ]_vars

-----------------------------------------------------------------------------
(* Claims about the scope-tracking calculations (checked under SpecProjector) *)

\* the snapshots that the calculations read
Filtered == getFilteredData(scopeData, filterDate)

EarliestDay == CHOOSE d \in Range([k \in DOMAIN Filtered |-> Filtered[k].date]) :
                  \A k \in DOMAIN Filtered : d <= Filtered[k].date

LatestDay == CHOOSE d \in Range([k \in DOMAIN Filtered |-> Filtered[k].date]) :
                \A k \in DOMAIN Filtered : d >= Filtered[k].date

\* quotient q is the number x (in units of 1/Scale) divided by days
IsPerDay(q, x, numberOfDays) ==
    /\ q.d > 0
    /\ q.n * Scale * numberOfDays = x * q.d

\* date t is the day plus the quotient q of days, cut to a whole millisecond
IsDayPlus(t, day, q) ==
    LET r == q.n - (t.day - day) * q.d
    IN  /\ 0 <= r /\ r < q.d
        /\ 0 <= t.ms /\ t.ms < 86400000
        /\ t.ms * q.d <= r * 86400000
        /\ r * 86400000 < (t.ms + 1) * q.d

(* C18: calculateProjectedFinishDate is null with fewer than 2 snapshots    *)
(* and when (latest.workDone - earliest.workDone) / max(1, days between) is *)
(* not positive; otherwise workRatePerDay is that quotient, remainingWork   *)
(* is latest.totalScope - latest.workDone, daysRemaining is remainingWork / *)
(* workRatePerDay and projectedFinishDate is latest.date + daysRemaining.   *)
C18_Projection ==
    pc \in {"projected", "calculated"} =>
        IF Len(Filtered) < 2
        THEN projection = <<>>
        ELSE \E e, l \in DOMAIN Filtered :
                LET earliest == Filtered[e]
                    latest == Filtered[l]
                    between == Max(1, latest.date - earliest.date)
                    done == latest.workDone - earliest.workDone
                IN  /\ e # l
                    /\ earliest.date = EarliestDay
                    /\ latest.date = LatestDay
                    /\ IF done <= 0
                       THEN projection = <<>>
                       ELSE /\ Len(projection) = 1
                            /\ IsPerDay(projection[1].workRatePerDay, done, between)
                            /\ projection[1].remainingWork =
                                  latest.totalScope - latest.workDone
                            /\ projection[1].daysRemaining.d > 0
                            /\ projection[1].daysRemaining.n * done =
                                  projection[1].remainingWork * between
                                     * projection[1].daysRemaining.d
                            /\ IsDayPlus(projection[1].projectedFinishDate,
                                         latest.date, projection[1].daysRemaining)

\* 30 days of work in 14 days and 50 days left: 23 days and a third more
C18_Witness ==
    /\ pc = "projected"
    /\ Len(scopeData) = 2
    /\ scopeData[1].date = scopeData[2].date + 14
    /\ Len(projection) = 1
    /\ projection[1].workRatePerDay = quotient(30, 14)
    /\ projection[1].remainingWork = 50 * Scale
    /\ projection[1].daysRemaining = quotient(70, 3)
    /\ projection[1].projectedFinishDate =
          dateObject(scopeData[1].date + 23, 28800000)

\* the snapshot collection in the order given by permutation p
Permuted(p) == [k \in DOMAIN scopeData |-> scopeData[p[k]]]

Orders == Permutations(DOMAIN scopeData)

DistinctDates ==
    \A a, b \in DOMAIN scopeData :
        a # b => scopeData[a].date # scopeData[b].date

\* a calculation leaves the collection alone and returns what it returns
\* for the collection in any other order
SameInAnyOrder ==
    /\ (pc = "scope" /\ pc' = "projected") =>
          /\ scopeData' = scopeData
          /\ \A p \in Orders :
                calculateProjectedFinishDate(Permuted(p), filterDate) = projection'
    /\ (pc = "projected" /\ pc' = "calculated") =>
          /\ scopeData' = scopeData
          /\ \A p \in Orders :
                calculateScopeCreep(Permuted(p), filterDate) = scopeCreep'

(* C19 as stated: the projection and the scope-change rate are the same for *)
(* every permutation of the snapshots, snapshots that share a timestamp     *)
(* included, and neither calculation reorders or modifies the collection.   *)
C19_AnyOrder == [][SameInAnyOrder]_vars

(* C19 amended: for snapshots of pairwise different timestamps the          *)
(* projection and the scope-change rate are the same for every permutation  *)
(* of the snapshots, and neither calculation reorders or modifies the       *)
(* collection.                                                              *)
C19_AnyOrderOfDistinctDates == [][DistinctDates => SameInAnyOrder]_vars

\* three snapshots of different days, the latest given first and the
\* earliest last, have a projection and a scope change
C19_Witness ==
    /\ pc = "calculated"
    /\ Len(scopeData) = 3
    /\ DistinctDates
    /\ scopeData[1].date > scopeData[2].date
    /\ scopeData[2].date > scopeData[3].date
    /\ Len(projection) = 1
    /\ projection[1].latestDate = scopeData[1].date
    /\ Len(scopeCreep) = 1
    /\ scopeCreep[1].scopeChange # 0

(* C20: with at least 2 snapshots calculateScopeCreep compares the latest   *)
(* snapshot with the newest other snapshot dated at or before the latest    *)
(* date minus 14 days, or with the earliest snapshot when there is none;    *)
(* the comparison snapshot is never the latest one; scopeChange is          *)
(* latest.totalScope - comparison.totalScope and scopeChangePerDay is       *)
(* scopeChange / max(1, days between them); fewer than 2 snapshots give     *)
(* null.                                                                    *)
C20_ScopeCreep ==
    pc = "calculated" =>
        IF Len(Filtered) < 2
        THEN scopeCreep = <<>>
        ELSE /\ Len(scopeCreep) = 1
             /\ \E l, c \in DOMAIN Filtered :
                   LET latest == Filtered[l]
                       comparison == Filtered[c]
                       others == DOMAIN Filtered \ {l}
                       old == {k \in others :
                                  Filtered[k].date <= latest.date - 14}
                       between == Max(1, latest.date - comparison.date)
                   IN  /\ c # l
                       /\ comparison.fileName # latest.fileName
                       /\ latest.date = LatestDay
                       /\ IF old # {}
                          THEN /\ c \in old
                               /\ \A k \in old : Filtered[k].date <= comparison.date
                          ELSE comparison.date = EarliestDay
                       /\ scopeCreep[1].scopeChange =
                             latest.totalScope - comparison.totalScope
                       /\ IsPerDay(scopeCreep[1].scopeChangePerDay,
                                   scopeCreep[1].scopeChange, between)
                       /\ scopeCreep[1].comparisonDate = comparison.date
                       /\ scopeCreep[1].latestDate = latest.date

\* the snapshots of 20 and 14 days before the latest one are both old
\* enough: the latest is compared with that of 14 days before, whose scope
\* is 30 days smaller
C20_Witness ==
    /\ pc = "calculated"
    /\ Len(scopeData) = 3
    /\ filterDate = NoFilterDate
    /\ DistinctDates
    /\ EarliestDay = LatestDay - 20
    /\ Len(scopeCreep) = 1
    /\ scopeCreep[1].comparisonDate = LatestDay - 14
    /\ scopeCreep[1].scopeChange = 30 * Scale
    /\ scopeCreep[1].scopeChangePerDay = quotient(30, 14)
    /\ scopeCreep[1].daysBetween = 14 * Scale

-----------------------------------------------------------------------------
(* Claims about the render of the scope-tracking page (SpecProjector) *)

\* quotient a is less than quotient b (finite quotients)
Less(a, b) == a.n * b.d < b.n * a.d

\* Date object a is before Date object b (valid dates)
Before(a, b) == a.day < b.day \/ (a.day = b.day /\ a.ms < b.ms)

Zero == quotient(0, 1)

\* the whole days from the day of date to the time date + q days
WholeDays(date, q) ==
    LET sum == minus(q, quotient(-date.ms, 86400000))
    IN  sum.n \div sum.d

\* the projection with scope creep is shown exactly when there are a
\* projection and a scope change; its day count is remainingWork divided by
\* workRatePerDay - scopeChangePerDay (not finite when they are equal) and
\* its date is on the day that many days after now
CreepFormula ==
    /\ (creepProjection # <<>>) <=> (projection # <<>> /\ scopeCreep # <<>>)
    /\ creepProjection # <<>> =>
          LET w == projection[1].workRatePerDay
              s == scopeCreep[1].scopeChangePerDay
              rem == numberOf(projection[1].remainingWork)
              days == creepProjection[1].daysToCompletionWithCreep
              date == creepProjection[1].projectedDateWithCreep
          IN  IF w = s
              THEN days.d = 0 /\ date = InvalidDate
              ELSE /\ days.d > 0
                   /\ days.n * minus(w, s).n * rem.d
                         = rem.n * days.d * minus(w, s).d
                   /\ date.day = now.day + WholeDays(now, days)
                   /\ 0 <= date.ms /\ date.ms < 86400000

\* the three cases of the scope change rate; positive is TRUE when the cases
\* are only read for a positive remaining work
CreepCases(positive) ==
    creepProjection # <<>> =>
        LET w == projection[1].workRatePerDay
            s == scopeCreep[1].scopeChangePerDay
            days == creepProjection[1].daysToCompletionWithCreep
            date == creepProjection[1].projectedDateWithCreep
            applies == ~positive \/ projection[1].remainingWork > 0
        IN  /\ s = Zero => days = projection[1].daysRemaining
            /\ (Less(Zero, s) /\ Less(s, w) /\ applies) =>
                  Less(projection[1].daysRemaining, days)
            /\ (Less(w, s) /\ applies) =>
                  /\ days.d > 0
                  /\ Less(days, Zero)
                  /\ Before(date, now)

(* C21 as stated: whenever both a projection and a scope change rate exist, *)
(* the days to completion with scope creep are remainingWork /              *)
(* (workRatePerDay - scopeChangePerDay) and the date is now plus that many  *)
(* days; with no scope change the days equal daysRemaining, with a positive *)
(* scope change below the work rate they are more, and with a scope change  *)
(* above the work rate they are negative and the date is before now.        *)
C21_CreepProjection ==
    pc = "rendered" => CreepFormula /\ CreepCases(FALSE)

(* C21 amended: the same, the last two cases for a positive remaining work: *)
(* with no work remaining the days to completion are zero whatever the      *)
(* rates are (and the date is now), or not a number when the rates are      *)
(* equal (and the date is an Invalid Date).                                 *)
C21_CreepProjectionOfRemainingWork ==
    pc = "rendered" =>
        /\ CreepFormula
        /\ CreepCases(TRUE)
        /\ (creepProjection # <<>> /\ projection[1].remainingWork = 0) =>
              IF projection[1].workRatePerDay = scopeCreep[1].scopeChangePerDay
              THEN /\ creepProjection[1].daysToCompletionWithCreep
                         = [n |-> 0, d |-> 0]
                   /\ creepProjection[1].projectedDateWithCreep = InvalidDate
              ELSE /\ creepProjection[1].daysToCompletionWithCreep = Zero
                   /\ creepProjection[1].projectedDateWithCreep = now

\* 70 days remain at 40 days of work in 20 days and 30 days of new scope in
\* 14 days: an effective rate of -1/7 a day, 490 days before now
C21_Witness ==
    /\ pc = "rendered"
    /\ Len(creepProjection) = 1
    /\ projection[1].remainingWork = 70 * Scale
    /\ projection[1].workRatePerDay = quotient(2, 1)
    /\ scopeCreep[1].scopeChangePerDay = quotient(30, 14)
    /\ creepProjection[1].daysToCompletionWithCreep = quotient(-490, 1)
    /\ creepProjection[1].projectedDateWithCreep
          = dateObject(now.day - 490, now.ms)
    /\ now.ms > 0

\* a positive scope change below the work rate with work remaining: later
C21_WitnessLater ==
    /\ pc = "rendered"
    /\ Len(creepProjection) = 1
    /\ projection[1].remainingWork > 0
    /\ Less(Zero, scopeCreep[1].scopeChangePerDay)
    /\ Less(scopeCreep[1].scopeChangePerDay, projection[1].workRatePerDay)
    /\ Less(projection[1].daysRemaining,
            creepProjection[1].daysToCompletionWithCreep)

\* no work remains and the scope changes faster than the work is done
C21_WitnessNoWorkLeft ==
    /\ pc = "rendered"
    /\ Len(creepProjection) = 1
    /\ projection[1].remainingWork = 0
    /\ Less(projection[1].workRatePerDay, scopeCreep[1].scopeChangePerDay)
    /\ creepProjection[1].projectedDateWithCreep = now

\* the sum of a field over the first j initiatives of a list that are due
\* on the day given or before
RECURSIVE DueSum(_, _, _, _)
DueSum(list, day, field, j) ==
    IF j = 0 THEN 0
    ELSE DueSum(list, day, field, j - 1)
            + (IF list[j].targetDate <= day THEN list[j][field] ELSE 0)

DueCount(list, day) == Cardinality({j \in DOMAIN list : list[j].targetDate <= day})

\* what getFilteredData returned is the collection itself without a filter
\* date, and with one the same snapshots with the sums and the count of
\* their initiatives due by the filter day
FilteredAsDue(returnedData) ==
    IF filterDate = NoFilterDate
    THEN returnedData = scopeData
    ELSE /\ Len(returnedData) = Len(scopeData)
         /\ \A k \in DOMAIN scopeData :
               LET list == scopeData[k].initiatives
                   day == filterDate[2]
               IN  /\ returnedData[k].date = scopeData[k].date
                   /\ returnedData[k].fileName = scopeData[k].fileName
                   /\ returnedData[k].totalScope
                         = DueSum(list, day, "totalWork", Len(list))
                   /\ returnedData[k].workDone
                         = DueSum(list, day, "doneWork", Len(list))
                   /\ returnedData[k].initiativeCount = DueCount(list, day)

(* C25: getFilteredData returns the collection unchanged for an empty       *)
(* filter; for a filter date it returns the same snapshots in the same      *)
(* order, date and fileName unchanged, with totalScope, workDone and        *)
(* initiativeCount the sums of totalWork and doneWork and the count of the  *)
(* snapshot's initiatives due at or before the end of the filter day; the   *)
(* stored collection is not modified.                                       *)
C25_FilteredData ==
    [][ (pc = "scope" /\ pc' = "filtered") =>
           /\ scopeData' = scopeData
           /\ FilteredAsDue(filterResult') ]_vars

\* a snapshot of three initiatives of which two are due by the filter day,
\* one of them on that day
C25_Witness ==
    /\ pc = "filtered"
    /\ filterDate = DateText(MaxDay - 5)
    /\ \E k \in DOMAIN scopeData :
          /\ scopeData[k].initiativeCount = 3
          /\ scopeData[k].totalScope = 130 * Scale
          /\ filterResult[k].initiativeCount = 2
          /\ filterResult[k].totalScope = 100 * Scale
          /\ filterResult[k].workDone = 50 * Scale
          /\ filterResult[k].initiatives = scopeData[k].initiatives

-----------------------------------------------------------------------------
(* Claims about the uploads of the scope-tracking page (SpecDrops) *)

\* the number of times x is in the list
CountIn(list, x) == Cardinality({j \in DOMAIN list : list[j] = x})

\* the two lists hold the same elements the same number of times
SameElements(a, b) ==
    /\ Len(a) = Len(b)
    /\ \A j \in DOMAIN a : CountIn(a, a[j]) = CountIn(b, a[j])

Ascending(list) ==
    \A j, k \in DOMAIN list : j < k => list[j].date <= list[k].date

\* no snapshot of the collection is lost by the step
NothingLost ==
    \A j \in DOMAIN scopeData :
        CountIn(scopeData', scopeData[j]) >= CountIn(scopeData, scopeData[j])

(* C22: without a clear, whatever drops overlap, a step keeps every         *)
(* snapshot that the collection held, and the collection is ascending by    *)
(* timestamp.                                                               *)
C22_NothingLostByDrops ==
    [][ ~ClearData => (NothingLost /\ Ascending(scopeData')) ]_vars

\* the file fails: no date in its name, or an error result of the parser
Fails(file) ==
    \/ file.name.matched = NoMatch
    \/ parseCsvToInitiatives(MaxDay, file.contents).outcome = "error"

\* what the step of drop k on its next file does, told by whether the file
\* fails: a failing file adds no snapshot and is named by the error
\* message, a file that succeeds adds its snapshot; the drop goes on with
\* the files after it, and after the last file the snapshots of all the
\* files that succeeded are in the collection
IsolatedStep(k) ==
    LET drop == drops[k]
        file == Head(drop.files)
        added == IF Fails(file)
                 THEN <<>>
                 ELSE << CHOOSE dataPoint \in
                            {processFile(file, MaxDay).dataPoint} : TRUE >>
    IN  /\ Fails(file) =>
              /\ Len(scopeError') = 1
              /\ scopeError'[1].fileName = file.name
        /\ added # <<>> => added[1].fileName = file.name
        /\ IF Len(drop.files) > 1
           THEN /\ Len(drops') = Len(drops)
                /\ drops'[k].files = Tail(drop.files)
                /\ drops'[k].newDataPoints = drop.newDataPoints \o added
           ELSE /\ Len(drops') = Len(drops) - 1
                /\ SameElements(scopeData',
                                drop.data \o drop.newDataPoints \o added)

(* C23: in a drop of several files a failing file (no date in the name, or  *)
(* an error result of the parser) does not stop the drop: the files after   *)
(* it are still processed, the snapshots of the files that succeed are      *)
(* added to the collection, the failing file adds none and an error message *)
(* naming it is set.                                                        *)
C23_FailureIsolated ==
    [][ \A k \in DOMAIN drops : FileProcessed(k) => IsolatedStep(k) ]_vars

\* a drop of a file without a date and a good file has returned: the
\* collection holds the snapshot of the good file, the message names the
\* other
C23_Witness ==
    /\ pc = "drops"
    /\ drops = <<>>
    /\ Len(scopeError) = 1
    /\ scopeError[1].fileName = UndatedFile.name
    /\ Len(scopeData) = 1
    /\ scopeData[1].fileName = EarlierFile.name
    /\ scopeData[1].initiativeCount = 2

(* C24: every snapshot of the collection has a valid timestamp.             *)
C24_ValidTimestamps ==
    \A k \in DOMAIN scopeData : ~IsNaN(scopeData[k].date)

(* C27: isLoading is true exactly while a drop is being processed.          *)
C27_LoadingWhileProcessing ==
    isLoading <=> (drops # <<>>)

-----------------------------------------------------------------------------
(* Claims about the day count of the batch parser's initiatives (SpecBatch) *)

(* C26: onTrackStatus of every Initiative kept by the batch parser is a     *)
(* whole number of days, also when it was clamped to a fractional totalWork. *)
C26_WholeDayStatus ==
    pc = "parsed" =>
        \A k \in DOMAIN result.initiatives :
            result.initiatives[k].onTrackStatus % Scale = 0

-----------------------------------------------------------------------------
(* Claims about the states of the planner page (SpecPlanner) *)

\* with an error message nothing is shown
ErrorMeansEmpty ==
    error # NoError =>
        /\ dataState = <<>>
        /\ allInitiatives = <<>>
        /\ selectedMonthData = Null

\* the list of all initiatives and the drill-down have initiatives to show
ShownMeansLoaded ==
    (page = "all" \/ selectedMonthData # Null) => allInitiatives # <<>>

\* the texts a parse of the page can be given: a read under way, the sample
ParseTexts == {reads[k].contents : k \in DOMAIN reads} \cup {sampleCSVData}

\* the list of all initiatives changes only by a parse, which sets it to
\* its initiatives, resets the navigation and sets the error
ListFromParse ==
    allInitiatives' # allInitiatives =>
        \E day \in PlannerDays, csv \in ParseTexts :
        \E processed \in {processData(day, csv)} :
            /\ allInitiatives' = processed.allInitiatives
            /\ error' = processed.error
            /\ dataState' = processed.data
            /\ selectedMonthData' = Null
            /\ page' = "home"

(* C28: on the planner page, whatever the drops, sample loads, bar clicks,  *)
(* 'view all' and 'back' actions: with an error message set the chart data  *)
(* and the list of all initiatives are empty and no month is selected; when *)
(* the page is 'all' or a month is selected the list of all initiatives is  *)
(* not empty, and it is the list of the latest parse that succeeded (only a *)
(* parse changes it).                                                       *)
C28_PlannerStates ==
    /\ [](ErrorMeansEmpty /\ ShownMeansLoaded)
    /\ [][ListFromParse]_vars

\* the list of all initiatives is shown after a file that failed was
\* replaced by the sample, while a read is under way
C28_Witness ==
    /\ pc = "planner"
    /\ page = "all"
    /\ error = NoError
    /\ Len(allInitiatives) = 2
    /\ fileName = "sample-data.csv"
    /\ reads # <<>>

\* a file that failed: the error is set and nothing is shown
C28_WitnessError ==
    /\ pc = "planner"
    /\ error # NoError
    /\ fileName = "bad.csv"
    /\ reads = <<>>

\* the files that the name shown can be of
NamedFiles ==
    PlannerFiles \cup {[name |-> "sample-data.csv", contents |-> sampleCSVData]}

(* C29: when no read is under way, the file name displayed is the name of a *)
(* file whose contents produced the list of initiatives and the error       *)
(* displayed.                                                               *)
C29_NameOfDisplayedData ==
    (pc = "planner" /\ reads = <<>> /\ fileName # NoFileName) =>
        \E file \in NamedFiles, day \in PlannerDays :
        \E processed \in {processData(day, file.contents)} :
            /\ file.name = fileName
            /\ allInitiatives = processed.allInitiatives
            /\ error = processed.error

-----------------------------------------------------------------------------
(* Claims about the loops of the calendar utility (FairLoops) *)

LoopsReturned == pc \in {"loopCounted", "loopAdded"}

\* the calendar days that curDate is past the start date
Advanced == heap[loop.curDate].day - heap[startArg].day

\* floor(n) + 2 * (floor(floor(n) / 5) + 1)
AdvanceLimit(n) == Floor(n) + 2 * (Floor(n) \div 5 + 1)

\* addWorkingDays from a valid date with n >= 1: each run of the body
\* advances one calendar day, and never more than the limit
AddAdvance ==
    (pc \in {"adding", "loopAdded"} /\ ~IsNaN(heap[startArg].day)
                                    /\ ~IsNaN(daysArg) /\ daysArg >= Scale) =>
        /\ loop.iterations = Advanced
        /\ Advanced <= AdvanceLimit(daysArg)

\* calculateWorkingDays: the body has run once for each calendar day from
\* the start date to the day before curDate, of which none is after the end
\* date, and when the call returns for each calendar day of [start, end];
\* a call that returns at its guard runs it for none
CountIterations ==
    /\ (pc = "counting") =>
          /\ loop.iterations = Advanced
          /\ Advanced <= heap[endArg].day - heap[startArg].day + 1
    /\ (pc = "loopCounted") =>
          IF loop = NoLoop
          THEN \/ IsNaN(heap[startArg].day)
               \/ IsNaN(heap[endArg].day)
               \/ heap[endArg].day < heap[startArg].day
          ELSE loop.iterations = heap[endArg].day - heap[startArg].day + 1

C30_WitnessCounted ==
    /\ pc = "loopCounted"
    /\ getDay(heap[startArg].day) = 1
    /\ loop.iterations = 8
    /\ counted = 6

====
